---- MODULE Spec2Model ----
(***************************************************************************)
(* A model of the parakeet-diarized services: the orchestrator handler     *)
(* (runpod_handler_orchestrator.py), the single-process HTTP endpoint      *)
(* (api.py with diarization/__init__.py), the transcription handler        *)
(* (runpod_handler_transcription.py) and the diarization handler           *)
(* (runpod_handler_diarization.py).                                        *)
(*                                                                         *)
(* One behaviour is the life of one worker process: svc names the service  *)
(* the process runs, and the process handles one job after the other.      *)
(* JSON objects and Python dicts are functions from keys to values, so     *)
(* that `"error" in d` is "error" \in DOMAIN d; None is the value NoneV.   *)
(***************************************************************************)
EXTENDS Integers, Sequences, FiniteSets, TLC

VARIABLES
    svc,                \* the service this worker process runs
    pc,                 \* the position of the process in its handler
    job,                \* job["input"] / the request's form fields
    result,             \* what the handler returned (NoneV while it runs)
    cuda,               \* torch.cuda.is_available()
    hf_token,           \* a HuggingFace token is configured
    asr_model,          \* the global asr_model is loaded
    inflight,           \* orchestrator: the remote calls awaiting a response
    net_log,            \* orchestrator: the issue/return events of the job
    diar_http,          \* orchestrator: how the diarization request ended
    trans_http,         \* orchestrator: how the transcription request ended
    o_diar,             \* orchestrator: diarization_result
    trans_payload,      \* orchestrator: trans_payload["input"]
    fs,                 \* the ephemeral files and directories that exist
    temp_file,          \* the handler's temp_file
    wav_file,           \* the handler's wav_file
    audio_chunks,       \* the handler's audio_chunks
    chunk_dirs,         \* the handler's chunk_dirs_to_cleanup
    temp_dir,           \* the handlers' temp_dir (mkdtemp)
    diarizer,           \* the Diarizer object (NoneV, or its pipeline state)
    diarization_result, \* the DiarizationResult of the job
    idx,                \* the chunk loop's next index i
    all_text,           \* the chunk loop's all_text
    all_segments,       \* the chunk loop's all_segments
    outcome,            \* what the try block returned or raised
    rm_log,             \* the removals the finally block attempted, in order
    rm_failed,          \* the artifacts whose removal raised
    gpu_log             \* the accelerator events of the job, in order

commonVars == <<svc, pc, job, result>>
envVars    == <<cuda, hf_token, asr_model>>
orchVars   == <<inflight, net_log, diar_http, trans_http, o_diar, trans_payload>>
fileVars   == <<fs, temp_file, wav_file, audio_chunks, chunk_dirs, temp_dir>>
cleanVars  == <<rm_log, rm_failed>>
diarVars   == <<diarizer, diarization_result>>
loopVars   == <<idx, all_text, all_segments>>
localVars  == <<fileVars, cleanVars, diarVars, loopVars, outcome, gpu_log>>
vars       == <<commonVars, envVars, orchVars, localVars>>

(***************************************************************************)
(* Values                                                                  *)
(***************************************************************************)
NoneV == [none |-> TRUE]

\* None in a field that otherwise holds a string (a language, a speaker, a
\* format): a string no such field can hold
NoneStr == "<None>"

\* dict.get(k, default)
Get(d, k, default) == IF k \in DOMAIN d THEN d[k] ELSE default

\* Python truthiness of a dict-or-None value: None and {} are falsy
Truthy(d) == d # NoneV /\ DOMAIN d # {}

(***************************************************************************)
(* The orchestrator: runpod_handler_orchestrator.py                        *)
(***************************************************************************)

\* The job inputs the orchestrator is given: audio missing, empty or a URL;
\* diarize missing (the default is True), true or false; timestamps missing
\* (the default is False), true or false; and two inputs the workers
\* reject: base64 audio without audio_format, and an unknown response_format.
OrchJobs ==
    { a @@ d @@ t @@ [temperature |-> 0]
        : a \in {<<>>, [audio |-> ""], [audio |-> "https://host/a.mp3"]},
          d \in {<<>>, [diarize |-> TRUE], [diarize |-> FALSE]},
          t \in {<<>>, [timestamps |-> TRUE], [timestamps |-> FALSE]} }
    \cup { [audio |-> "QUJD"],
           [audio |-> "https://host/a.mp3", response_format |-> "bogus", diarize |-> FALSE] }

\* What the diarization service can answer (the JSON body of a 200 response).
DiarSegsA == <<[start |-> 0, end |-> 2, speaker |-> "1"],
               [start |-> 2, end |-> 5, speaker |-> "2"]>>
DiarBodies ==
    { [id |-> "d1", output |-> [segments |-> DiarSegsA, num_speakers |-> 2, duration |-> 5]],
      [id |-> "d1", output |-> [segments |-> <<>>, num_speakers |-> 0, duration |-> 0]],
      [id |-> "d1", output |-> [error |-> "Diarization model not initialized"]],
      [id |-> "d1", error |-> "diarization worker crashed"],
      [id |-> "d1", error |-> "job failed",
       output |-> [segments |-> DiarSegsA, num_speakers |-> 2, duration |-> 5]],
      [id |-> "d1", status |-> "IN_PROGRESS"],
      [id |-> "d1", output |-> NoneV] }

\* What the transcription service can answer.
TransSegsA == <<[id |-> 0, start |-> 0, end |-> 2, text |-> "hello", speaker |-> "1"]>>
TransBodies ==
    { [id |-> "t1", output |-> [text |-> "hello"]],
      [id |-> "t1", output |-> [text |-> "hello", segments |-> TransSegsA]],
      [id |-> "t1", output |-> [error |-> "CUDA out of memory"]],
      [id |-> "t1", error |-> "transcription worker crashed"],
      [id |-> "t1", status |-> "IN_QUEUE"],
      [id |-> "t1", output |-> NoneV] }

\* The ways requests.post / raise_for_status / response.json() can end.
HttpOutcomes(bodies) ==
    { [kind |-> "timeout"],
      [kind |-> "transport", msg |-> "502 Server Error: Bad Gateway"],
      [kind |-> "other", msg |-> "Expecting value: line 1 column 1 (char 0)"] }
    \cup { [kind |-> "ok", body |-> b] : b \in bodies }

\* A faulty variant: the output field is looked at before the error field
call_runpod_endpointOutputFirst(http) ==
    CASE http.kind = "timeout"   -> [error |-> "Endpoint request timed out"]
      [] http.kind = "transport" -> [error |-> "Failed to call endpoint: " \o http.msg]
      [] http.kind = "other"     -> [error |-> http.msg]
      [] http.kind = "ok" ->
            IF "output" \in DOMAIN http.body THEN http.body.output
            ELSE IF "error" \in DOMAIN http.body THEN [error |-> http.body.error]
            ELSE http.body

\* call_runpod_endpoint: the value it returns for each way the request ends
call_runpod_endpoint(http) ==
    CASE http.kind = "timeout"   -> [error |-> "Endpoint request timed out"]
      [] http.kind = "transport" -> [error |-> "Failed to call endpoint: " \o http.msg]
      [] http.kind = "other"     -> [error |-> http.msg]
      [] http.kind = "ok" ->
            IF "error" \in DOMAIN http.body THEN [error |-> http.body.error]
            ELSE IF "output" \in DOMAIN http.body THEN http.body.output
            ELSE http.body

\* str(e) of the TypeError that `"error" in None` raises
NoneTypeError == "argument of type 'NoneType' is not iterable"

\* A faulty variant: diarization_segments is always part of the payload
TransPayloadAlwaysSegments(j, diar) ==
    [audio |-> j.audio,
     audio_format |-> Get(j, "audio_format", NoneStr),
     language |-> Get(j, "language", NoneStr),
     response_format |-> Get(j, "response_format", "json"),
     timestamps |-> (Get(j, "timestamps", FALSE) \/ Get(j, "diarize", TRUE)),
     word_timestamps |-> Get(j, "word_timestamps", FALSE),
     temperature |-> Get(j, "temperature", 0),
     diarization_segments |-> IF Truthy(diar) /\ "segments" \in DOMAIN diar
                              THEN diar.segments ELSE <<>>]

\* A faulty variant: timestamps are forced on only when segments were obtained
TransPayloadTimestampsIfObtained(j, diar) ==
    [audio |-> j.audio,
     audio_format |-> Get(j, "audio_format", NoneStr),
     language |-> Get(j, "language", NoneStr),
     response_format |-> Get(j, "response_format", "json"),
     timestamps |-> (Get(j, "timestamps", FALSE) \/ Truthy(diar)),
     word_timestamps |-> Get(j, "word_timestamps", FALSE),
     temperature |-> Get(j, "temperature", 0)]
    @@ (IF Truthy(diar) /\ "segments" \in DOMAIN diar
        THEN [diarization_segments |-> diar.segments] ELSE <<>>)

\* trans_payload["input"] (lines 169-183)
TransPayload(j, diar) ==
    [audio |-> j.audio,
     audio_format |-> Get(j, "audio_format", NoneStr),
     language |-> Get(j, "language", NoneStr),
     response_format |-> Get(j, "response_format", "json"),
     timestamps |-> (Get(j, "timestamps", FALSE) \/ Get(j, "diarize", TRUE)),
     word_timestamps |-> Get(j, "word_timestamps", FALSE),
     temperature |-> Get(j, "temperature", 0)]
    @@ (IF Truthy(diar) /\ "segments" \in DOMAIN diar
        THEN [diarization_segments |-> diar.segments] ELSE <<>>)

\* The per-job state of the orchestrator before its first call
OrchFresh ==
    /\ inflight' = {}
    /\ net_log' = <<>>
    /\ diar_http' = NoneV
    /\ trans_http' = NoneV
    /\ o_diar' = NoneV
    /\ trans_payload' = NoneV

\* initialize(): the endpoint ids and the API key are read; a missing one raises
OrchInitialize ==
    /\ svc = "orch" /\ pc = "boot"
    /\ \E configured \in BOOLEAN : pc' = IF configured THEN "idle" ELSE "dead"
    /\ UNCHANGED <<svc, job, result, envVars, orchVars, localVars>>

\* A faulty variant: both calls are issued at once
OrchBeginParallel ==
    /\ svc = "orch" /\ pc \in {"idle", "done"}
    /\ \E j \in OrchJobs :
        /\ job' = j
        /\ IF Get(j, "audio", "") = ""
           THEN /\ result' = [error |-> "Missing required 'audio' field in input"]
                /\ pc' = "done"
                /\ OrchFresh
           ELSE /\ result' = NoneV
                /\ pc' = IF Get(j, "diarize", TRUE) THEN "await_diar" ELSE "await_trans"
                /\ inflight' = IF Get(j, "diarize", TRUE) THEN {"diar", "trans"} ELSE {"trans"}
                /\ net_log' = IF Get(j, "diarize", TRUE)
                              THEN <<"diar_issue", "trans_issue">> ELSE <<"trans_issue">>
                /\ trans_payload' = TransPayload(j, NoneV)
    /\ diar_http' = NoneV
    /\ trans_http' = NoneV
    /\ o_diar' = NoneV
    /\ UNCHANGED <<svc, envVars, localVars>>

\* handler, from its entry to the first remote call (lines 129-158, 167-185)
OrchBegin ==
    /\ svc = "orch" /\ pc \in {"idle", "done"}
    /\ \E j \in OrchJobs :
        /\ job' = j
        /\ IF Get(j, "audio", "") = ""
           THEN /\ result' = [error |-> "Missing required 'audio' field in input"]
                /\ pc' = "done"
                /\ OrchFresh
           ELSE IF Get(j, "diarize", TRUE)
           THEN /\ result' = NoneV
                /\ pc' = "await_diar"
                /\ inflight' = {"diar"}
                /\ net_log' = <<"diar_issue">>
                /\ trans_payload' = NoneV
           ELSE /\ result' = NoneV
                /\ pc' = "await_trans"
                /\ inflight' = {"trans"}
                /\ net_log' = <<"trans_issue">>
                /\ trans_payload' = TransPayload(j, NoneV)
    /\ diar_http' = NoneV
    /\ trans_http' = NoneV
    /\ o_diar' = NoneV
    /\ UNCHANGED <<svc, envVars, localVars>>

\* A faulty variant: a failed diarization call aborts the job
OrchDiarResultVarAborting(r) ==
    IF r = NoneV THEN [raised |-> TRUE, error |-> NoneTypeError]
    ELSE IF "error" \in DOMAIN r
         THEN [raised |-> TRUE, error |-> "Diarization failed: " \o r.error]
    ELSE [raised |-> FALSE, diar |-> r]

\* lines 160-165 on the value r the diarization call returned: a failed call
\* leaves no diarization result; `"error" in None` raises
OrchDiarResultVar(r) ==
    IF r = NoneV THEN [raised |-> TRUE, error |-> NoneTypeError]
    ELSE IF "error" \in DOMAIN r THEN [raised |-> FALSE, diar |-> NoneV]
    ELSE [raised |-> FALSE, diar |-> r]

\* handler, from the diarization call's return to the transcription call
\* (lines 158-185)
OrchDiarReturn ==
    /\ svc = "orch" /\ pc = "await_diar"
    /\ \E http \in HttpOutcomes(DiarBodies) :
        LET step == OrchDiarResultVar(call_runpod_endpoint(http))
        IN  /\ diar_http' = http
            /\ IF step.raised
               THEN /\ result' = [error |-> step.error]
                    /\ pc' = "done"
                    /\ inflight' = inflight \ {"diar"}
                    /\ net_log' = Append(net_log, "diar_return")
                    /\ UNCHANGED <<o_diar, trans_payload>>
               ELSE /\ o_diar' = step.diar
                    /\ trans_payload' = TransPayload(job, step.diar)
                    /\ inflight' = (inflight \ {"diar"}) \cup {"trans"}
                    /\ net_log' = net_log \o <<"diar_return", "trans_issue">>
                    /\ pc' = "await_trans"
                    /\ UNCHANGED result
    /\ UNCHANGED <<svc, job, trans_http, envVars, localVars>>

\* A faulty variant: a failed transcription yields an empty transcript
OrchResultLenient(r) ==
    IF r = NoneV THEN [error |-> NoneTypeError]
    ELSE IF "error" \in DOMAIN r THEN [text |-> ""]
    ELSE r

\* A faulty variant: the error of the transcription call is handed on as it is
OrchResultVerbatim(r) ==
    IF r = NoneV THEN [error |-> NoneTypeError]
    ELSE IF "error" \in DOMAIN r THEN [error |-> r.error]
    ELSE r

\* A faulty variant: the result of a successful call is wrapped with a status
OrchResultTagged(r) ==
    IF r = NoneV THEN [error |-> NoneTypeError]
    ELSE IF "error" \in DOMAIN r THEN [error |-> "Transcription failed: " \o r.error]
    ELSE [status |-> "completed"] @@ r

\* the job result for the value the transcription call returned (lines 187-196)
OrchResult(r) ==
    IF r = NoneV THEN [error |-> NoneTypeError]
    ELSE IF "error" \in DOMAIN r THEN [error |-> "Transcription failed: " \o r.error]
    ELSE r

\* handler, from the transcription call's return to its own return
OrchTransReturn ==
    /\ svc = "orch" /\ pc = "await_trans"
    /\ \E http \in HttpOutcomes(TransBodies) :
        /\ trans_http' = http
        /\ result' = OrchResult(call_runpod_endpoint(http))
    /\ net_log' = Append(net_log, "trans_return")
    /\ inflight' = inflight \ {"trans"}
    /\ pc' = "done"
    /\ UNCHANGED <<svc, job, diar_http, o_diar, trans_payload, envVars, localVars>>

(***************************************************************************)
(* Ephemeral artifacts.  A file or directory is [n |-> name, d |-> the     *)
(* directory it lies in]; "shared" is the persistent temp directory        *)
(* (config.temp_dir, the system's), never removed.                         *)
(***************************************************************************)
MaxChunks == 2

UploadFile == [n |-> "upload", d |-> "shared"]
TmpDir     == [n |-> "tmp", d |-> "root"]
InputFile  == [n |-> "input_audio", d |-> "tmp"]
InputFmt   == [n |-> "input_audio.fmt", d |-> "tmp"]
ChunkDir   == [n |-> "chunks", d |-> "root"]
WavIn(dir)       == [n |-> "wav", d |-> dir]
ChunkName(i)     == <<"chunk0", "chunk1", "chunk2", "chunk3">>[i + 1]
ChunkIn(i, dir)  == [n |-> ChunkName(i), d |-> dir]
DirNamed(name)   == [n |-> name, d |-> "root"]

\* os.path.dirname
Dirname(a) == a.d

\* what os.unlink(a) or shutil.rmtree(a) takes away when it succeeds
Tree(a, files) == {a} \cup {b \in files : b.d = a.n}

\* The removals of the finally block, in the order of the code: temp_file,
\* wav_file unless it is temp_file, each chunk that is not wav_file, each
\* tracked chunk directory, then the handlers' temp_dir.
SetToSeq(S) == IF S = {} THEN <<>> ELSE <<CHOOSE x \in S : TRUE>>
RemovalPlan ==
    (IF temp_file # NoneV THEN <<temp_file>> ELSE <<>>)
    \o (IF wav_file # NoneV /\ wav_file # temp_file THEN <<wav_file>> ELSE <<>>)
    \o SelectSeq(audio_chunks, LAMBDA c : c # wav_file)
    \o SetToSeq(chunk_dirs)
    \o (IF temp_dir # NoneV THEN <<temp_dir>> ELSE <<>>)

\* One guarded removal: `if os.path.exists(a): remove(a)` inside its own
\* try/except; fails holds the artifacts whose removal raises.
RemoveOne(st, a, fails) ==
    IF a \notin st.fs THEN st
    ELSE IF a \in fails
         THEN [fs |-> st.fs, log |-> Append(st.log, a), failed |-> st.failed \cup {a}]
         ELSE [fs |-> st.fs \ Tree(a, st.fs), log |-> Append(st.log, a),
               failed |-> st.failed]

\* A faulty variant: the first removal that fails ends the clean-up
RECURSIVE RunRemovalsStopping(_, _, _)
RunRemovalsStopping(plan, st, fails) ==
    IF plan = <<>> \/ st.failed # {} THEN st
    ELSE RunRemovalsStopping(Tail(plan), RemoveOne(st, Head(plan), fails), fails)

RECURSIVE RunRemovals(_, _, _)
RunRemovals(plan, st, fails) ==
    IF plan = <<>> THEN st
    ELSE RunRemovals(Tail(plan), RemoveOne(st, Head(plan), fails), fails)

\* The finally block as a whole, for one choice of the removals that fail
FinallyBlock(fails) ==
    RunRemovals(RemovalPlan, [fs |-> fs, log |-> <<>>, failed |-> {}], fails)

\* A faulty variant: a removal that fails replaces what the try block produced
AfterFinallyMasking(st, out) ==
    IF st.failed # {} THEN [raised |-> TRUE, detail |-> "cleanup failed"] ELSE out

\* What the handler hands to its caller after the finally block: every
\* removal sits in its own try/except that only logs, so it is what the try
\* block returned or raised.
AfterFinally(st, out) == out

(***************************************************************************)
(* The collaborators' values                                               *)
(***************************************************************************)
ChunkDuration == 4

\* what transcribe_audio_chunk returns for a chunk, in chunk-local time
AsrOutputs ==
    { [text |-> "a", segments |-> <<[id |-> 0, start |-> 0, end |-> 2, text |-> "a"]>>],
      [text |-> "b c", segments |-> <<[id |-> 0, start |-> 1, end |-> 3, text |-> "b"],
                                       [id |-> 1, start |-> 3, end |-> 4, text |-> "c"]>>] }

\* len(text.split()) of the texts above
WordCount(t) == IF t = "b c" THEN 2 ELSE 1

\* what the diarization pipeline finds, sorted by start (line 172)
DiarFindings ==
    { <<[start |-> 0, end |-> 2, speaker |-> "1"], [start |-> 2, end |-> 7, speaker |-> "2"]>>,
      <<[start |-> 6, end |-> 8, speaker |-> "1"]>>,
      <<>> }

EmptyDiarization == [segments |-> <<>>, num_speakers |-> 0]

\* A faulty variant: the texts are joined with nothing between them
RECURSIVE JoinTight(_)
JoinTight(texts) ==
    IF texts = <<>> THEN "" ELSE texts[1] \o JoinTight(Tail(texts))

\* " ".join(texts)
RECURSIVE JoinSpace(_)
JoinSpace(texts) ==
    IF texts = <<>> THEN ""
    ELSE IF Len(texts) = 1 THEN texts[1]
    ELSE texts[1] \o " " \o JoinSpace(Tail(texts))

\* A faulty variant: the offset is the chunk index, not index times duration
ShiftSegmentsByIndex(segs, i) ==
    IF i > 0
    THEN [k \in 1..Len(segs) |-> [segs[k] EXCEPT !.start = @ + i, !.end = @ + i]]
    ELSE segs

\* segment.start += offset; segment.end += offset (for i > 0)
ShiftSegments(segs, i) ==
    IF i > 0
    THEN [k \in 1..Len(segs) |->
            [segs[k] EXCEPT !.start = @ + i * ChunkDuration, !.end = @ + i * ChunkDuration]]
    ELSE segs

Max2(a, b) == IF a >= b THEN a ELSE b
Min2(a, b) == IF a <= b THEN a ELSE b

\* A faulty variant: intervals that only touch count as overlapping
RECURSIVE OverlappingTouching(_, _)
OverlappingTouching(seg, dsegs) ==
    IF dsegs = <<>> THEN <<>>
    ELSE LET d == Head(dsegs)
             overlap_start == Max2(seg.start, d.start)
             overlap_end == Min2(seg.end, d.end)
         IN  (IF overlap_end >= overlap_start
              THEN <<[speaker |-> d.speaker, duration |-> overlap_end - overlap_start]>>
              ELSE <<>>) \o OverlappingTouching(seg, Tail(dsegs))

\* the (speaker, duration) pairs of the diarization segments that overlap seg
RECURSIVE Overlapping(_, _)
Overlapping(seg, dsegs) ==
    IF dsegs = <<>> THEN <<>>
    ELSE LET d == Head(dsegs)
             overlap_start == Max2(seg.start, d.start)
             overlap_end == Min2(seg.end, d.end)
         IN  (IF overlap_end > overlap_start
              THEN <<[speaker |-> d.speaker, duration |-> overlap_end - overlap_start]>>
              ELSE <<>>) \o Overlapping(seg, Tail(dsegs))

\* A faulty variant: of several pairs of the largest duration the last wins
DominantLast(ov) ==
    LET best == CHOOSE k \in 1..Len(ov) :
                    /\ \A m \in 1..Len(ov) : ov[m].duration <= ov[k].duration
                    /\ \A m \in (k + 1)..Len(ov) : ov[m].duration < ov[k].duration
    IN  ov[best].speaker

\* overlapping.sort(key=duration, reverse=True)[0]: list.sort is stable, also
\* with reverse=True, so the first pair of the largest duration comes first
Dominant(ov) ==
    LET best == CHOOSE k \in 1..Len(ov) :
                    /\ \A m \in 1..Len(ov) : ov[m].duration <= ov[k].duration
                    /\ \A m \in 1..(k - 1) : ov[m].duration < ov[k].duration
    IN  ov[best].speaker

\* A faulty variant: an empty diarization labels every segment "unknown"
mergeLabellingWithoutDiarization(dsegs, segs) ==
    [k \in 1..Len(segs) |->
        LET ov == Overlapping(segs[k], dsegs)
        IN  [speaker |-> IF ov # <<>> THEN Dominant(ov) ELSE "unknown"] @@ segs[k]]

\* A faulty variant: a segment no speaker overlaps is left out of the result
mergeDroppingUnmatched(dsegs, segs) ==
    IF dsegs = <<>> THEN segs
    ELSE LET labelled == [k \in 1..Len(segs) |->
                LET ov == Overlapping(segs[k], dsegs)
                IN  [speaker |-> IF ov # <<>> THEN Dominant(ov) ELSE "unknown"] @@ segs[k]]
         IN  SelectSeq(labelled, LAMBDA x : x.speaker # "unknown")

\* Diarizer.merge_with_transcription
merge_with_transcription(dsegs, segs) ==
    IF dsegs = <<>> THEN segs
    ELSE [k \in 1..Len(segs) |->
            LET ov == Overlapping(segs[k], dsegs)
            IN  [speaker |-> IF ov # <<>> THEN Dominant(ov) ELSE "unknown"] @@ segs[k]]

(***************************************************************************)
(* Steps the handlers share                                                *)
(***************************************************************************)
Raised(msg)   == [raised |-> TRUE, detail |-> msg]
Returned(val) == [raised |-> FALSE, value |-> val]

\* The per-job local state at the entry of a handler
LocalFresh ==
    /\ fs' = {}
    /\ temp_file' = NoneV
    /\ wav_file' = NoneV
    /\ audio_chunks' = <<>>
    /\ chunk_dirs' = {}
    /\ temp_dir' = NoneV
    /\ diarization_result' = NoneV
    /\ idx' = 0
    /\ all_text' = <<>>
    /\ all_segments' = <<>>
    /\ outcome' = NoneV
    /\ rm_log' = <<>>
    /\ rm_failed' = {}
    /\ gpu_log' = <<>>

\* wav_file = convert_audio_to_wav(temp_file): it raises, returns the path
\* it was given, or writes a new file beside the input or in the shared
\* temp directory
ConvertStep(s, nxt) ==
    /\ svc = s /\ pc = "convert"
    /\ \/ /\ outcome' = Raised("conversion failed")
          /\ pc' = "finally"
          /\ UNCHANGED <<fs, wav_file>>
       \/ /\ wav_file' = temp_file
          /\ pc' = nxt
          /\ UNCHANGED <<fs, outcome>>
       \/ \E dir \in {"shared", Dirname(temp_file)} :
            /\ wav_file' = WavIn(dir)
            /\ fs' = fs \cup {WavIn(dir)}
            /\ pc' = nxt
            /\ UNCHANGED outcome
    /\ UNCHANGED <<svc, job, result, envVars, orchVars, temp_file, audio_chunks,
                   chunk_dirs, temp_dir, cleanVars, diarVars, loopVars, gpu_log>>

\* A faulty variant: no chunk directory is tracked
TrackedChunkDirsNone(chunks, wav) == {}

\* the chunk directories to clean up (the loop after split_audio_into_chunks)
TrackedChunkDirs(chunks, wav) ==
    { DirNamed(Dirname(chunks[k])) : k \in {m \in 1..Len(chunks) : Dirname(chunks[m]) # Dirname(wav)} }

\* audio_chunks = split_audio_into_chunks(wav_file, chunk_duration): it
\* raises, returns the WAV file itself, or writes n chunk files beside the
\* WAV file or in a directory of their own
SplitStep(s, nxt) ==
    /\ svc = s /\ pc = "split"
    /\ \/ /\ outcome' = Raised("chunking failed")
          /\ pc' = "finally"
          /\ UNCHANGED <<fs, audio_chunks, chunk_dirs>>
       \/ /\ audio_chunks' = <<wav_file>>
          /\ chunk_dirs' = {}
          /\ pc' = nxt
          /\ UNCHANGED <<fs, outcome>>
       \/ \E n \in 0..MaxChunks, own \in BOOLEAN :
            LET dir == IF own /\ n > 0 THEN ChunkDir.n ELSE Dirname(wav_file)
                chunks == [k \in 1..n |-> ChunkIn(k - 1, dir)]
            IN  /\ audio_chunks' = chunks
                /\ fs' = fs \cup {chunks[k] : k \in 1..n}
                             \cup (IF own /\ n > 0 THEN {ChunkDir} ELSE {})
                /\ chunk_dirs' = TrackedChunkDirs(chunks, wav_file)
                /\ pc' = nxt
                /\ UNCHANGED outcome
    /\ UNCHANGED <<svc, job, result, envVars, orchVars, temp_file, wav_file,
                   temp_dir, cleanVars, diarVars, loopVars, gpu_log>>

Ev(e) == [ev |-> e]

\* A faulty variant: the cache is never cleared
EmptyCacheNever == <<>>

\* torch.cuda.empty_cache() behind `if torch.cuda.is_available()`
EmptyCache == IF cuda THEN <<Ev("empty_cache")>> ELSE <<>>

\* the call transcribe_audio_chunk(asr_model, chunk_path, language=language,
\* word_timestamps=word_timestamps) for chunk i of job j, with the keyword
\* arguments it is given (api 163-168, trans 255-260)
AsrCall(j, i) ==
    [ev |-> "asr", i |-> i,
     kwargs |-> [language |-> Get(j, "language", NoneStr),
                 word_timestamps |-> Get(j, "word_timestamps", FALSE)]]

\* A faulty variant: the chunks are taken from the last to the first
ChunkStepDescending(s) ==
    /\ svc = s /\ pc = "chunks" /\ idx < Len(audio_chunks)
    /\ LET i == Len(audio_chunks) - 1 - idx
       IN \/ /\ gpu_log' = gpu_log \o EmptyCache \o <<AsrCall(job, i) @@ [ok |-> FALSE]>>
             /\ outcome' = [raised |-> TRUE, detail |-> "ASR failed"]
             /\ pc' = "finally"
             /\ UNCHANGED loopVars
          \/ \E out \in AsrOutputs :
               /\ gpu_log' = gpu_log \o EmptyCache
                               \o <<AsrCall(job, i) @@ [ok |-> TRUE, text |-> out.text, segments |-> out.segments]>>
               /\ all_text' = Append(all_text, out.text)
               /\ all_segments' = all_segments \o ShiftSegments(out.segments, i)
               /\ idx' = idx + 1
               /\ UNCHANGED <<pc, outcome>>
    /\ UNCHANGED <<svc, job, result, envVars, orchVars, fileVars, cleanVars, diarVars>>

\* A faulty variant: a chunk whose transcription fails is skipped
ChunkStepSkipping(s) ==
    /\ svc = s /\ pc = "chunks" /\ idx < Len(audio_chunks)
    /\ \/ /\ gpu_log' = gpu_log \o EmptyCache \o <<AsrCall(job, idx) @@ [ok |-> FALSE]>>
          /\ idx' = idx + 1
          /\ UNCHANGED <<pc, outcome, all_text, all_segments>>
       \/ \E out \in AsrOutputs :
            /\ gpu_log' = gpu_log \o EmptyCache
                            \o <<AsrCall(job, idx) @@ [ok |-> TRUE, text |-> out.text, segments |-> out.segments]>>
            /\ all_text' = Append(all_text, out.text)
            /\ all_segments' = all_segments \o ShiftSegments(out.segments, idx)
            /\ idx' = idx + 1
            /\ UNCHANGED <<pc, outcome>>
    /\ UNCHANGED <<svc, job, result, envVars, orchVars, fileVars, cleanVars, diarVars>>

\* One turn of the chunk loop: the cache is cleared, the chunk is handed to
\* transcribe_audio_chunk, which returns or raises, the timestamps of a later
\* chunk are shifted, and text and segments are accumulated.
ChunkStep(s) ==
    /\ svc = s /\ pc = "chunks" /\ idx < Len(audio_chunks)
    /\ \/ /\ gpu_log' = gpu_log \o EmptyCache \o <<AsrCall(job, idx) @@ [ok |-> FALSE]>>
          /\ outcome' = Raised("ASR failed")
          /\ pc' = "finally"
          /\ UNCHANGED loopVars
       \/ \E out \in AsrOutputs :
            /\ gpu_log' = gpu_log \o EmptyCache
                            \o <<AsrCall(job, idx) @@ [ok |-> TRUE, text |-> out.text, segments |-> out.segments]>>
            /\ all_text' = Append(all_text, out.text)
            /\ all_segments' = all_segments \o ShiftSegments(out.segments, idx)
            /\ idx' = idx + 1
            /\ UNCHANGED <<pc, outcome>>
    /\ UNCHANGED <<svc, job, result, envVars, orchVars, fileVars, cleanVars, diarVars>>

(***************************************************************************)
(* The Diarizer: diarization/__init__.py                                   *)
(***************************************************************************)

\* Diarizer(access_token): _initialize loads the pipeline onto the device,
\* or fails, is logged, and leaves pipeline None
NewDiarizer(loaded) == [pipeline |-> loaded, device |-> IF cuda THEN "cuda" ELSE "cpu"]

\* Diarizer.diarize: the ways the run can go for a diarizer dz; run is what
\* the pipeline does: "raise", "unknown" (an output of no known type) or the
\* speaker turns it finds
DiarizeRuns ==
    {[kind |-> "raise"], [kind |-> "unknown"]}
    \cup {[kind |-> "found", found |-> f] : f \in DiarFindings}

SpeakersOf(segs) == {segs[k].speaker : k \in 1..Len(segs)}

diarize(dz, run) ==
    IF ~dz.pipeline THEN EmptyDiarization
    ELSE IF run.kind \in {"raise", "unknown"} THEN EmptyDiarization
    ELSE [segments |-> run.found, num_speakers |-> Cardinality(SpeakersOf(run.found))]

\* the accelerator event of a diarize() call
DiarizeEvent(dz, run) ==
    IF ~dz.pipeline THEN Ev("diarize_uninitialised")
    ELSE IF run.kind \in {"raise", "unknown"} THEN Ev("diarize_failed")
    ELSE Ev("diarize_ok")

\* A faulty variant: cleanup leaves the pipeline where it is
cleanupKeepingPipeline(dz) == dz

\* A faulty variant: the pipeline is dropped only when it is on the GPU
cleanupOnlyOnCuda(dz) ==
    IF dz.device = "cuda" THEN [dz EXCEPT !.pipeline = FALSE] ELSE dz

\* Diarizer.cleanup: the diarizer after it, and its accelerator events
cleanup(dz) == [dz EXCEPT !.pipeline = FALSE]
CleanupEvents(dz) == IF dz.pipeline THEN <<Ev("diar_unload")>> \o EmptyCache ELSE <<>>

\* audio_input.startswith("http://") or audio_input.startswith("https://")
IsUrl(a) == a \in {"https://host/a.mp3", "http://host/a.mp3"}

\* The handlers' lines from mkdtemp to the audio file, as the ways they can
\* end: [dir: temp_dir, file: temp_file, made: what was created, out: what
\* was raised or returned, NoneV to go on].  mkdtemp raises; a URL is
\* downloaded to input_audio (the request fails, the write fails with the
\* file there, or the file is written); base64 data without audio_format
\* returns an error from inside the try block; base64 data is decoded to
\* input_audio.<format> (the data is bad, the write fails with the file
\* there, or the file is written) and temp_file is then that file
FetchOutcomes(j) ==
    {[dir |-> NoneV, file |-> NoneV, made |-> {},
      out |-> Raised("cannot create temp directory")]}
    \cup
    (IF IsUrl(j.audio)
     THEN {[dir |-> TmpDir, file |-> InputFile, made |-> {TmpDir},
            out |-> Raised("download failed")],
           [dir |-> TmpDir, file |-> InputFile, made |-> {TmpDir, InputFile},
            out |-> Raised("cannot write downloaded audio")],
           [dir |-> TmpDir, file |-> InputFile, made |-> {TmpDir, InputFile},
            out |-> NoneV]}
     ELSE IF Get(j, "audio_format", NoneStr) = NoneStr
     THEN {[dir |-> TmpDir, file |-> InputFile, made |-> {TmpDir},
            out |-> Returned([error |->
                      "audio_format is required when using base64-encoded audio"])]}
     ELSE {[dir |-> TmpDir, file |-> InputFile, made |-> {TmpDir},
            out |-> Raised("Incorrect padding")],
           [dir |-> TmpDir, file |-> InputFile, made |-> {TmpDir, InputFmt},
            out |-> Raised("cannot write decoded audio")],
           [dir |-> TmpDir, file |-> InputFmt, made |-> {TmpDir, InputFmt},
            out |-> NoneV]})

FetchStep(s) ==
    /\ svc = s /\ pc = "fetch"
    /\ \E o \in FetchOutcomes(job) :
        /\ temp_dir' = o.dir
        /\ temp_file' = o.file
        /\ fs' = fs \cup o.made
        /\ outcome' = o.out
        /\ pc' = IF o.out = NoneV THEN "convert" ELSE "finally"
    /\ UNCHANGED <<svc, job, result, envVars, orchVars, wav_file, audio_chunks,
                   chunk_dirs, cleanVars, diarVars, loopVars, gpu_log>>

(***************************************************************************)
(* The single-process endpoint: api.py                                     *)
(***************************************************************************)
ApiJobs ==
    { [response_format |-> "json", timestamps |-> FALSE, diarize |-> TRUE],
      [response_format |-> "json", timestamps |-> TRUE, diarize |-> TRUE],
      [response_format |-> "json", timestamps |-> TRUE, diarize |-> FALSE],
      [response_format |-> "verbose_json", timestamps |-> FALSE, diarize |-> TRUE,
       temperature |-> 7],
      [response_format |-> "text", timestamps |-> FALSE, diarize |-> FALSE],
      [response_format |-> "bogus", timestamps |-> TRUE, diarize |-> TRUE] }

\* startup_event: load_model succeeds, or raises and is only logged
ApiStartup ==
    /\ svc = "api" /\ pc = "boot"
    /\ asr_model' \in BOOLEAN
    /\ pc' = "idle"
    /\ UNCHANGED <<svc, job, result, cuda, hf_token, orchVars, localVars>>

\* transcribe_audio up to the try block (lines 93-105)
ApiRequest ==
    /\ svc = "api" /\ pc \in {"idle", "done"}
    /\ job' \in ApiJobs
    /\ IF ~asr_model
       THEN /\ result' = [status |-> 503,
                          detail |-> "Model not loaded yet. Please try again in a few moments."]
            /\ pc' = "done"
       ELSE /\ result' = NoneV
            /\ pc' = "save"
    /\ diarizer' = NoneV
    /\ LocalFresh
    /\ UNCHANGED <<svc, envVars, orchVars>>

\* the upload is saved (lines 108-115): the directory cannot be made, the
\* file cannot be opened, the write fails, or the file is written
ApiSave ==
    /\ svc = "api" /\ pc = "save"
    /\ \/ /\ outcome' = Raised("cannot create temp directory")
          /\ pc' = "finally"
          /\ UNCHANGED <<fs, temp_file>>
       \/ /\ temp_file' = UploadFile
          /\ outcome' = Raised("cannot open upload file")
          /\ pc' = "finally"
          /\ UNCHANGED fs
       \/ /\ temp_file' = UploadFile
          /\ fs' = fs \cup {UploadFile}
          /\ outcome' = Raised("cannot write upload file")
          /\ pc' = "finally"
       \/ /\ temp_file' = UploadFile
          /\ fs' = fs \cup {UploadFile}
          /\ pc' = "convert"
          /\ UNCHANGED outcome
    /\ UNCHANGED <<svc, job, result, envVars, orchVars, wav_file, audio_chunks,
                   chunk_dirs, temp_dir, cleanVars, diarVars, loopVars, gpu_log>>

ApiConvert == ConvertStep("api", "split")

ApiSplit == SplitStep("api", "diarinit")

\* lines 130-137: a Diarizer is made when diarize is set and a token is there
ApiDiarInit ==
    /\ svc = "api" /\ pc = "diarinit"
    /\ IF job.diarize /\ hf_token
       THEN \E loaded \in BOOLEAN :
              /\ diarizer' = NewDiarizer(loaded)
              /\ gpu_log' = gpu_log \o (IF loaded THEN <<Ev("diar_load")>> ELSE <<>>)
              /\ pc' = "diarize"
       ELSE /\ diarizer' = NoneV
            /\ pc' = "chunks"
            /\ UNCHANGED gpu_log
    /\ UNCHANGED <<svc, job, result, envVars, orchVars, fileVars, cleanVars,
                   diarization_result, loopVars, outcome>>

\* A faulty variant: a diarization that fails raises out of the try block
ApiDiarizeHard ==
    /\ svc = "api" /\ pc = "diarize"
    /\ \E run \in DiarizeRuns :
        /\ diarization_result' = diarize(diarizer, run)
        /\ gpu_log' = Append(gpu_log, DiarizeEvent(diarizer, run))
        /\ IF DiarizeEvent(diarizer, run) = Ev("diarize_ok")
           THEN pc' = "release" /\ UNCHANGED outcome
           ELSE pc' = "finally" /\ outcome' = Raised("Diarization failed")
    /\ UNCHANGED <<svc, job, result, envVars, orchVars, fileVars, cleanVars,
                   diarizer, loopVars>>

\* lines 142-145: diarization_result = diarizer.diarize(wav_file)
ApiDiarize ==
    /\ svc = "api" /\ pc = "diarize"
    /\ \E run \in DiarizeRuns :
        /\ diarization_result' = diarize(diarizer, run)
        /\ gpu_log' = Append(gpu_log, DiarizeEvent(diarizer, run))
    /\ pc' = "release"
    /\ UNCHANGED <<svc, job, result, envVars, orchVars, fileVars, cleanVars,
                   diarizer, loopVars, outcome>>

\* A faulty variant: the diarizer is not cleaned up before the chunks
ApiReleaseSkipped ==
    /\ svc = "api" /\ pc = "release"
    /\ pc' = "chunks"
    /\ UNCHANGED <<svc, job, result, envVars, orchVars, fileVars, cleanVars,
                   diarVars, loopVars, outcome, gpu_log>>

\* lines 147-149: diarizer.cleanup()
ApiRelease ==
    /\ svc = "api" /\ pc = "release"
    /\ diarizer' = cleanup(diarizer)
    /\ gpu_log' = gpu_log \o CleanupEvents(diarizer)
    /\ pc' = "chunks"
    /\ UNCHANGED <<svc, job, result, envVars, orchVars, fileVars, cleanVars,
                   diarization_result, loopVars, outcome>>

ApiChunk == ChunkStep("api")

RECURSIVE SumWords(_)
SumWords(segs) == IF segs = <<>> THEN 0 ELSE WordCount(Head(segs).text) + SumWords(Tail(segs))

\* lines 183-189: the speakers are merged in when there is a diarizer and
\* its result has segments
ApiMerged(dz, dres, segs) ==
    IF dz # NoneV /\ dres # NoneV /\ dres.segments # <<>>
    THEN merge_with_transcription(dres.segments, segs)
    ELSE segs

\* lines 192-213: the response for the requested format; a None field is a
\* missing key, the duration is the fraction num/den
ApiRender(j, texts, segs) ==
    LET full_text == JoinSpace(texts)
        response ==
            [text |-> full_text, language |-> NoneStr,
             duration |-> [num |-> SumWords(segs), den |-> 150],
             model |-> "parakeet-tdt-0.6b-v2"]
            @@ (IF j.timestamps \/ j.response_format = "verbose_json"
                THEN [segments |-> segs] ELSE <<>>)
    IN  CASE j.response_format \in {"json", "verbose_json"} -> Returned(response)
          [] j.response_format = "text" -> Returned([plain |-> full_text])
          [] OTHER ->
                Raised("400: Unsupported response format: " \o j.response_format)

\* the end of the try block, after the last chunk (lines 180-213)
ApiFinish ==
    /\ svc = "api" /\ pc = "chunks" /\ idx = Len(audio_chunks)
    /\ all_segments' = ApiMerged(diarizer, diarization_result, all_segments)
    /\ outcome' = ApiRender(job, all_text, all_segments')
    /\ pc' = "finally"
    /\ UNCHANGED <<svc, job, result, envVars, orchVars, fileVars, cleanVars,
                   diarVars, idx, all_text, gpu_log>>

\* the response FastAPI sends: the returned value, or the HTTPException of
\* lines 215-217
ApiResponse(out) ==
    IF out.raised THEN [status |-> 500, detail |-> out.detail]
    ELSE [status |-> 200, body |-> out.value]

\* the finally block (lines 219-251) and the handler's return
ApiFinally ==
    /\ svc = "api" /\ pc = "finally"
    /\ \E fails \in SUBSET fs :
        LET st == FinallyBlock(fails)
        IN  /\ fs' = st.fs
            /\ rm_log' = st.log
            /\ rm_failed' = st.failed
            /\ result' = ApiResponse(AfterFinally(st, outcome))
    /\ pc' = "done"
    /\ UNCHANGED <<svc, job, envVars, orchVars, temp_file, wav_file, audio_chunks,
                   chunk_dirs, temp_dir, diarVars, loopVars, outcome, gpu_log>>

(***************************************************************************)
(* The transcription handler: runpod_handler_transcription.py              *)
(***************************************************************************)
\* the inputs the orchestrator sends for a job that asks for diarization:
\* after a diarization call that failed, and after one that returned segments
OrchPayloadAfterFailedDiarization ==
    TransPayload([audio |-> "https://host/a.mp3"], NoneV)
OrchPayloadWithDiarization ==
    TransPayload([audio |-> "https://host/a.mp3"],
                 [segments |-> DiarSegsA, num_speakers |-> 2, duration |-> 5])

TransJobs ==
    { [response_format |-> "json"],
      [audio |-> "https://host/a.mp3", response_format |-> "json", timestamps |-> FALSE],
      [audio |-> "https://host/a.mp3", timestamps |-> TRUE,
       diarization_segments |-> DiarSegsA],
      [audio |-> "https://host/a.mp3", response_format |-> "json", timestamps |-> FALSE,
       diarization_segments |-> DiarSegsA],
      [audio |-> "https://host/a.mp3", response_format |-> "text",
       diarization_segments |-> <<>>],
      [audio |-> "QUJD", audio_format |-> "mp3", response_format |-> "verbose_json",
       temperature |-> 7],
      [audio |-> "QUJD", response_format |-> "json", timestamps |-> TRUE],
      [audio |-> "https://host/a.mp3", response_format |-> "bogus"],
      OrchPayloadAfterFailedDiarization,
      OrchPayloadWithDiarization }

valid_formats == {"json", "text", "srt", "vtt", "verbose_json"}

\* initialize(): the model is loaded, or the failure is raised again and the
\* worker does not start
TransInitialize ==
    /\ svc = "trans" /\ pc = "boot"
    /\ \E loaded \in BOOLEAN :
        /\ asr_model' = loaded
        /\ pc' = IF loaded THEN "idle" ELSE "dead"
    /\ UNCHANGED <<svc, job, result, cuda, hf_token, orchVars, localVars>>

\* the input validation (lines 185-202): the error dict the handler returns
\* at once, or None
TransRejection(j) ==
    IF Get(j, "audio", "") = ""
    THEN [error |-> "Missing required 'audio' field in input"]
    ELSE IF Get(j, "response_format", "json") \notin valid_formats
    THEN [error |->
            "Invalid response_format. Must be one of: json, text, srt, vtt, verbose_json"]
    ELSE NoneV

\* handler up to the try block (lines 183-209)
TransRequest ==
    /\ svc = "trans" /\ pc \in {"idle", "done"}
    /\ \E j \in TransJobs :
        /\ job' = j
        /\ result' = TransRejection(j)
        /\ pc' = IF TransRejection(j) = NoneV THEN "fetch" ELSE "done"
    /\ LocalFresh
    /\ UNCHANGED <<svc, envVars, orchVars, diarizer>>

TransFetch == FetchStep("trans")

TransConvert == ConvertStep("trans", "split")

TransSplit == SplitStep("trans", "chunks")

TransChunk == ChunkStep("trans")

\* A faulty variant: of the turns that overlap a segment equally long, the
\* last one gives the speaker
mergePreferringLaterTurn(dsegs, segs) ==
    IF dsegs = <<>> THEN segs
    ELSE [k \in 1..Len(segs) |->
            LET ov == Overlapping(segs[k], dsegs)
            IN  [speaker |-> IF ov # <<>> THEN DominantLast(ov) ELSE "unknown"] @@ segs[k]]

\* merge_diarization_with_transcription
merge_diarization_with_transcription(dsegs, segs) ==
    IF dsegs = <<>> THEN segs
    ELSE [k \in 1..Len(segs) |->
            LET ov == Overlapping(segs[k], dsegs)
            IN  [speaker |-> IF ov # <<>> THEN Dominant(ov) ELSE "unknown"] @@ segs[k]]

\* A faulty variant: a segment without a speaker is labelled "unknown"
SegmentDictUnknown(seg) ==
    [id |-> seg.id, start |-> seg.start, end |-> seg.end, text |-> seg.text,
     speaker |-> Get(seg, "speaker", "unknown")]

\* the dict the handler makes of a segment (lines 295-301, 309-315)
SegmentDict(seg) ==
    [id |-> seg.id, start |-> seg.start, end |-> seg.end, text |-> seg.text,
     speaker |-> Get(seg, "speaker", NoneStr)]

RECURSIVE SumDurations(_)
SumDurations(segs) ==
    IF segs = <<>> THEN 0 ELSE (Head(segs).end - Head(segs).start) + SumDurations(Tail(segs))

\* job_input.get("diarization_segments") is truthy
HasDiarization(j) ==
    "diarization_segments" \in DOMAIN j /\ j.diarization_segments # <<>>

\* lines 277-279: the speakers are merged in when the job brought segments
TransMerged(j, segs) ==
    IF HasDiarization(j)
    THEN merge_diarization_with_transcription(j.diarization_segments, segs)
    ELSE segs

\* A faulty variant: a json result lists segments only for a job that
\* brought diarization segments
TransRenderSegmentsIfDiarized(j, texts, segs) ==
    LET full_text == JoinSpace(texts)
        fmt == Get(j, "response_format", "json")
        dicts == [k \in 1..Len(segs) |-> SegmentDict(segs[k])]
    IN  CASE fmt = "text" -> [text |-> full_text]
          [] fmt = "verbose_json" ->
                [text |-> full_text, language |-> Get(j, "language", NoneStr),
                 duration |-> SumDurations(segs), model |-> "parakeet-tdt-0.6b-v2",
                 segments |-> dicts]
          [] OTHER ->
                [text |-> full_text]
                @@ (IF HasDiarization(j) THEN [segments |-> dicts] ELSE <<>>)

\* lines 281-317: the result for the requested format
TransRender(j, texts, segs) ==
    LET full_text == JoinSpace(texts)
        fmt == Get(j, "response_format", "json")
        dicts == [k \in 1..Len(segs) |-> SegmentDict(segs[k])]
    IN  CASE fmt = "text" -> [text |-> full_text]
          [] fmt = "verbose_json" ->
                [text |-> full_text, language |-> Get(j, "language", NoneStr),
                 duration |-> SumDurations(segs), model |-> "parakeet-tdt-0.6b-v2",
                 segments |-> dicts]
          [] OTHER ->
                [text |-> full_text]
                @@ (IF Get(j, "timestamps", FALSE) \/ HasDiarization(j)
                    THEN [segments |-> dicts] ELSE <<>>)

\* the end of the try block, after the last chunk (lines 272-320)
TransFinish ==
    /\ svc = "trans" /\ pc = "chunks" /\ idx = Len(audio_chunks)
    /\ all_segments' = TransMerged(job, all_segments)
    /\ outcome' = Returned(TransRender(job, all_text, all_segments'))
    /\ pc' = "finally"
    /\ UNCHANGED <<svc, job, result, envVars, orchVars, fileVars, cleanVars,
                   diarVars, idx, all_text, gpu_log>>

\* what a handler returns: the try block's value, or the error dict of its
\* `except Exception`
HandlerResponse(out) ==
    IF out.raised THEN [error |-> out.detail] ELSE out.value

\* the finally block (lines 326-361) and the handler's return
TransFinally ==
    /\ svc = "trans" /\ pc = "finally"
    /\ \E fails \in SUBSET fs :
        LET st == FinallyBlock(fails)
        IN  /\ fs' = st.fs
            /\ rm_log' = st.log
            /\ rm_failed' = st.failed
            /\ result' = HandlerResponse(AfterFinally(st, outcome))
    /\ pc' = "done"
    /\ UNCHANGED <<svc, job, envVars, orchVars, temp_file, wav_file, audio_chunks,
                   chunk_dirs, temp_dir, diarVars, loopVars, outcome, gpu_log>>

(***************************************************************************)
(* The diarization handler: runpod_handler_diarization.py                  *)
(***************************************************************************)
DiarJobs ==
    { [num_speakers |-> 2],
      [audio |-> "https://host/a.mp3"],
      [audio |-> "QUJD", audio_format |-> "mp3"],
      [audio |-> "QUJD"] }

\* initialize(): without a token it raises and the worker does not start;
\* else the global Diarizer is made, its pipeline loaded or not
DiarInitialize ==
    /\ svc = "diar" /\ pc = "boot"
    /\ IF ~hf_token
       THEN /\ pc' = "dead"
            /\ UNCHANGED diarizer
       ELSE /\ \E loaded \in BOOLEAN : diarizer' = NewDiarizer(loaded)
            /\ pc' = "idle"
    /\ UNCHANGED <<svc, job, result, envVars, orchVars, fileVars, cleanVars,
                   diarization_result, loopVars, outcome, gpu_log>>

\* handler up to the try block (lines 133-152); it can be called in a
\* process that never ran initialize(), where the global diarizer is None
DiarRequest ==
    /\ svc = "diar" /\ pc \in {"boot", "idle", "done"}
    /\ \E j \in DiarJobs :
        /\ job' = j
        /\ IF diarizer = NoneV
           THEN /\ result' = [error |-> "Diarization model not initialized"]
                /\ pc' = "done"
           ELSE IF Get(j, "audio", "") = ""
           THEN /\ result' = [error |-> "Missing required 'audio' field in input"]
                /\ pc' = "done"
           ELSE /\ result' = NoneV
                /\ pc' = "fetch"
    /\ LocalFresh
    /\ UNCHANGED <<svc, envVars, orchVars, diarizer>>

DiarFetch == FetchStep("diar")

DiarConvert == ConvertStep("diar", "diarize")

RECURSIVE MaxEnd(_)
MaxEnd(segs) ==
    IF Len(segs) = 1 THEN segs[1].end ELSE Max2(segs[1].end, MaxEnd(Tail(segs)))

\* A faulty variant: a diarization without segments is answered as an error
DiarResponseErrorOnEmpty(dres) ==
    IF dres.segments = <<>>
    THEN [error |-> "Diarization failed"]
    ELSE [segments |-> dres.segments, num_speakers |-> dres.num_speakers,
          duration |-> MaxEnd(dres.segments)]

\* lines 179-202: the response for a diarization result
DiarResponse(dres) ==
    IF dres.segments = <<>>
    THEN [segments |-> <<>>, num_speakers |-> 0, duration |-> 0]
    ELSE [segments |-> dres.segments, num_speakers |-> dres.num_speakers,
          duration |-> MaxEnd(dres.segments)]

\* lines 175-205: the diarization and the response made of it
DiarRun ==
    /\ svc = "diar" /\ pc = "diarize"
    /\ \E run \in DiarizeRuns :
        /\ diarization_result' = diarize(diarizer, run)
        /\ gpu_log' = Append(gpu_log, DiarizeEvent(diarizer, run))
        /\ outcome' = Returned(DiarResponse(diarization_result'))
    /\ pc' = "finally"
    /\ UNCHANGED <<svc, job, result, envVars, orchVars, fileVars, cleanVars,
                   diarizer, loopVars>>

\* the finally block (lines 211-229) and the handler's return
DiarFinally ==
    /\ svc = "diar" /\ pc = "finally"
    /\ \E fails \in SUBSET fs :
        LET st == FinallyBlock(fails)
        IN  /\ fs' = st.fs
            /\ rm_log' = st.log
            /\ rm_failed' = st.failed
            /\ result' = HandlerResponse(AfterFinally(st, outcome))
    /\ pc' = "done"
    /\ UNCHANGED <<svc, job, envVars, orchVars, temp_file, wav_file, audio_chunks,
                   chunk_dirs, temp_dir, diarVars, loopVars, outcome, gpu_log>>

(***************************************************************************)
(* The specification                                                       *)
(***************************************************************************)
Services == {"orch", "api", "trans", "diar"}

Init ==
    /\ svc \in Services
    /\ pc = "boot"
    /\ job = NoneV
    /\ result = NoneV
    /\ cuda \in BOOLEAN
    /\ hf_token \in BOOLEAN
    /\ asr_model = FALSE
    /\ inflight = {}
    /\ net_log = <<>>
    /\ diar_http = NoneV
    /\ trans_http = NoneV
    /\ o_diar = NoneV
    /\ trans_payload = NoneV
    /\ fs = {}
    /\ temp_file = NoneV
    /\ wav_file = NoneV
    /\ audio_chunks = <<>>
    /\ chunk_dirs = {}
    /\ temp_dir = NoneV
    /\ diarizer = NoneV
    /\ diarization_result = NoneV
    /\ idx = 0
    /\ all_text = <<>>
    /\ all_segments = <<>>
    /\ outcome = NoneV
    /\ rm_log = <<>>
    /\ rm_failed = {}
    /\ gpu_log = <<>>

Next ==
    \/ OrchInitialize
    \/ OrchBegin
    \/ OrchDiarReturn
    \/ OrchTransReturn
    \/ ApiStartup
    \/ ApiRequest
    \/ ApiSave
    \/ ApiConvert
    \/ ApiSplit
    \/ ApiDiarInit
    \/ ApiDiarize
    \/ ApiRelease
    \/ ApiChunk
    \/ ApiFinish
    \/ ApiFinally
    \/ TransInitialize
    \/ TransRequest
    \/ TransFetch
    \/ TransConvert
    \/ TransSplit
    \/ TransChunk
    \/ TransFinish
    \/ TransFinally
    \/ DiarInitialize
    \/ DiarRequest
    \/ DiarFetch
    \/ DiarConvert
    \/ DiarRun
    \/ DiarFinally

Spec == Init /\ [][Next]_vars

(***************************************************************************)
(* The claims                                                              *)
(***************************************************************************)

\* the request ended in a timeout, a transport error, an unreadable body, or
\* a response with an error field (at the top level or in its output)
HttpFailed(http) ==
    \/ http.kind \in {"timeout", "transport", "other"}
    \/ /\ http.kind = "ok"
       /\ \/ "error" \in DOMAIN http.body
          \/ "output" \in DOMAIN http.body /\ "error" \in DOMAIN http.body.output

\* the response has a null output
NullOutput(http) ==
    http.kind = "ok" /\ "error" \notin DOMAIN http.body
    /\ "output" \in DOMAIN http.body /\ http.body.output = NoneV

IsError(r) == "error" \in DOMAIN r

\* C1: when the diarization call of an orchestrator job fails (timeout,
\* transport error, error field), the diarization result is dropped, the
\* transcription call is still issued, without diarization segments, and the
\* job result is an error exactly when the transcription call went wrong.
C1_DiarizationFailureIsSoft ==
    (svc = "orch" /\ diar_http # NoneV /\ HttpFailed(diar_http)) =>
        /\ o_diar = NoneV
        /\ net_log[Len(net_log)] \in {"trans_issue", "trans_return"}
        /\ pc \in {"await_trans", "done"}
        /\ "diarization_segments" \notin DOMAIN trans_payload
        /\ pc = "await_trans" => (result = NoneV /\ inflight = {"trans"})
        /\ pc = "done" =>
            /\ trans_http # NoneV
            /\ IsError(result) <=> (HttpFailed(trans_http) \/ NullOutput(trans_http))

C1_Witness ==
    /\ svc = "orch" /\ pc = "done"
    /\ diar_http = [kind |-> "timeout"]
    /\ trans_http # NoneV /\ ~HttpFailed(trans_http)
    /\ "text" \in DOMAIN result

\* C2: when the transcription call of an orchestrator job fails, the job
\* result is an error, whatever the diarization call did.
C2_TranscriptionFailureIsHard ==
    (svc = "orch" /\ pc = "done" /\ trans_http # NoneV /\ HttpFailed(trans_http)) =>
        /\ IsError(result)
        /\ "text" \notin DOMAIN result /\ "segments" \notin DOMAIN result

C2_Witness ==
    /\ svc = "orch" /\ pc = "done"
    /\ diar_http # NoneV /\ ~HttpFailed(diar_http)
    /\ o_diar # NoneV /\ "segments" \in DOMAIN o_diar /\ o_diar.segments # <<>>
    /\ trans_http # NoneV /\ HttpFailed(trans_http)
    /\ IsError(result)

\* the error value a service reported in its response
ReportedError(http) ==
    IF "error" \in DOMAIN http.body THEN http.body.error ELSE http.body.output.error

ServiceReportedError(http) == http # NoneV /\ http.kind = "ok" /\ HttpFailed(http)

\* C3 (as claimed): the error value of the job result is exactly the error
\* value the transcription service reported.
C3_ErrorIsVerbatim ==
    (svc = "orch" /\ pc = "done" /\ ServiceReportedError(trans_http)) =>
        result = [error |-> ReportedError(trans_http)]

\* C3 (amended): the job result holds nothing but an error value, which is
\* "Transcription failed: " followed by the error value the service reported.
C3_ErrorIsPrefixed ==
    (svc = "orch" /\ pc = "done" /\ ServiceReportedError(trans_http)) =>
        result = [error |-> "Transcription failed: " \o ReportedError(trans_http)]

C3_Witness ==
    /\ svc = "orch" /\ pc = "done"
    /\ ServiceReportedError(trans_http)
    /\ result = [error |-> "Transcription failed: CUDA out of memory"]

EventsAt(evs) == {k \in 1..Len(gpu_log) : gpu_log[k].ev \in evs}
AsrCalls == EventsAt({"asr"})
DiarizeCalls == EventsAt({"diarize_ok", "diarize_failed", "diarize_uninitialised"})
FailedAsrCalls == {k \in AsrCalls : ~gpu_log[k].ok}

PipelineLoaded == diarizer # NoneV /\ diarizer.pipeline

Resident ==
    (IF asr_model THEN {"asr"} ELSE {})
    \cup (IF PipelineLoaded THEN {"diarization"} ELSE {})

JobServices == {"api", "trans", "diar"}

\* C7 (as claimed): when a handler returns, every artifact its job created
\* has been removed.
C7_AllArtifactsRemoved ==
    (svc \in JobServices /\ pc = "done") => fs = {}

\* C7 (amended): when a handler returns, every artifact its job created has
\* been removed, except those whose removal was attempted and failed (the
\* artifact's own removal, or that of the directory it lies in).
C7_RemovedUnlessRemovalFailed ==
    (svc \in JobServices /\ pc = "done") =>
        /\ \A a \in fs : \E f \in rm_failed : f = a \/ a.d = f.n
        /\ rm_failed = {} => fs = {}
        /\ \A k \in 1..Len(rm_log) : rm_log[k] \in rm_failed \/ rm_log[k] \notin fs

C7_Witness ==
    /\ svc \in JobServices /\ pc = "done"
    /\ outcome # NoneV /\ outcome.raised
    /\ Len(rm_log) >= 4 /\ rm_failed = {} /\ fs = {}

\* C8: a removal that fails changes nothing of what the handler hands back:
\* the value the try block returned, or the error it raised.
C8_CleanupFailureNotSurfaced ==
    (svc \in JobServices /\ pc = "done" /\ outcome # NoneV) =>
        IF svc = "api"
        THEN result = (IF outcome.raised
                       THEN [status |-> 500, detail |-> outcome.detail]
                       ELSE [status |-> 200, body |-> outcome.value])
        ELSE result = (IF outcome.raised THEN [error |-> outcome.detail] ELSE outcome.value)

C8_Witness ==
    /\ svc = "api" /\ pc = "done"
    /\ Cardinality(rm_failed) >= 2
    /\ outcome # NoneV /\ ~outcome.raised
    /\ result.status = 200
    /\ "text" \in DOMAIN result.body /\ result.body.text = "a b c"

\* C9: when transcribe_audio_chunk fails on chunk k, no later chunk is
\* submitted and the job result is an error that holds no text and no
\* segments.
C9_AsrFailureAbortsJob ==
    (svc \in {"api", "trans"}) =>
        \A k \in FailedAsrCalls :
            /\ k = Len(gpu_log)
            /\ pc \in {"finally", "done"}
            /\ idx = gpu_log[k].i
            /\ outcome = [raised |-> TRUE, detail |-> "ASR failed"]
            /\ pc = "done" =>
                IF svc = "api" THEN result = [status |-> 500, detail |-> "ASR failed"]
                ELSE result = [error |-> "ASR failed"]

C9_Witness ==
    /\ svc = "trans" /\ pc = "done"
    /\ \E k \in FailedAsrCalls : gpu_log[k].i = 1
    /\ all_text # <<>>
    /\ Len(audio_chunks) > 1

\* C10: in the endpoint a diarization that fails (pipeline not initialised,
\* the model raises, an output of unknown type) ends neither the job nor its
\* stages: the diarizer is released before the chunks, every chunk is handed
\* to the ASR model unless the ASR model itself fails, and a job in which
\* nothing else fails succeeds with segments that carry no speaker.
DiarizationFailed == EventsAt({"diarize_failed", "diarize_uninitialised"}) # {}

C10_DiarizationFailureAbsorbed ==
    (svc = "api" /\ DiarizationFailed) =>
        /\ pc \in {"release", "chunks", "finally", "done"}
        /\ diarization_result = EmptyDiarization
        /\ pc # "release" => ~diarizer.pipeline
        /\ \A k \in 1..Len(all_segments) : "speaker" \notin DOMAIN all_segments[k]
        /\ (pc \in {"finally", "done"}) =>
            /\ FailedAsrCalls = {} => Cardinality(AsrCalls) = Len(audio_chunks)
            /\ outcome.raised =>
                (FailedAsrCalls # {} \/ job.response_format \notin
                    {"json", "text", "srt", "vtt", "verbose_json"})
        /\ (pc = "done" /\ ~outcome.raised) =>
            /\ result.status = 200
            /\ "segments" \in DOMAIN result.body =>
                \A k \in 1..Len(result.body.segments) :
                    "speaker" \notin DOMAIN result.body.segments[k]

C10_Witness ==
    /\ svc = "api" /\ pc = "done"
    /\ EventsAt({"diarize_failed"}) # {}
    /\ result.status = 200
    /\ "segments" \in DOMAIN result.body /\ Len(result.body.segments) >= 2
    /\ Cardinality(AsrCalls) = 2

ChunkServices == {"api", "trans"}

\* the number of ASR invocations logged before position k
AsrCallsBefore(k) == Cardinality({m \in AsrCalls : m < k})

\* C11: the chunks are handed to transcribe_audio_chunk in ascending index
\* order from 0, each once: the n-th invocation of a job is for chunk n-1, it
\* starts only after the invocation before it has returned, and a loop that
\* no invocation fails has made one invocation per chunk.
C11_ChunksInAscendingOrder ==
    svc \in ChunkServices =>
        /\ \A k \in AsrCalls :
            /\ gpu_log[k].i = AsrCallsBefore(k)
            /\ gpu_log[k].i < Len(audio_chunks)
            /\ \A m \in AsrCalls : m < k => (gpu_log[m].ok /\ gpu_log[m].i < gpu_log[k].i)
        /\ idx = Cardinality(AsrCalls \ FailedAsrCalls)
        /\ (pc \in {"finally", "done"} /\ FailedAsrCalls = {} /\ outcome # NoneV) =>
              \A i \in 0..(Len(audio_chunks) - 1) :
                  Cardinality({k \in AsrCalls : gpu_log[k].i = i}) = 1

C11_Witness ==
    /\ svc = "trans" /\ pc = "done"
    /\ Len(audio_chunks) = 2
    /\ \E k, m \in AsrCalls :
        k < m /\ gpu_log[k].i = 0 /\ gpu_log[m].i = 1 /\ gpu_log[m].ok

\* the number of segments the ASR invocations logged up to position n returned
RECURSIVE SegmentsReturnedUpTo(_)
SegmentsReturnedUpTo(n) ==
    IF n = 0 THEN 0
    ELSE SegmentsReturnedUpTo(n - 1)
         + (IF gpu_log[n].ev = "asr" /\ gpu_log[n].ok THEN Len(gpu_log[n].segments) ELSE 0)

\* C12: a segment that transcribe_audio_chunk reports for chunk i at
\* chunk-local [s, e] is accumulated with start s + i * chunk_duration and
\* end e + i * chunk_duration, chunk 0 unshifted, whatever the length of the
\* chunk; the accumulated segments are those reported, in chunk order and
\* then in the order of the report.
C12_SegmentsShiftedByChunkOffset ==
    svc \in ChunkServices =>
        /\ Len(all_segments) = SegmentsReturnedUpTo(Len(gpu_log))
        /\ \A k \in AsrCalls \ FailedAsrCalls :
            \A m \in 1..Len(gpu_log[k].segments) :
                LET local == gpu_log[k].segments[m]
                    global == all_segments[SegmentsReturnedUpTo(k - 1) + m]
                    i == gpu_log[k].i
                IN  /\ global.start = local.start + i * ChunkDuration
                    /\ global.end = local.end + i * ChunkDuration
                    /\ i = 0 => (global.start = local.start /\ global.end = local.end)
                    /\ global.id = local.id /\ global.text = local.text

C12_Witness ==
    /\ svc = "api" /\ pc = "done" /\ result.status = 200
    /\ \E k \in AsrCalls \ FailedAsrCalls :
        /\ gpu_log[k].i = 1
        /\ Len(gpu_log[k].segments) = 2
        /\ gpu_log[k].segments[2].start = 3
        /\ all_segments[Len(all_segments)].start = 3 + ChunkDuration
        /\ all_segments[Len(all_segments)].end = 4 + ChunkDuration
    /\ all_segments[1].start = 0

(***************************************************************************)
(* The chunk plan: audio.split_audio_into_chunks, as the specification     *)
(* describes it (ChunkPlanner)                                             *)
(***************************************************************************)
MaxDuration == 15
MaxChunkLength == 7

\* ceil(a / b) for a >= 0, b > 0
Ceil(a, b) == (a + b - 1) \div b

\* A faulty variant: a last chunk shorter than max_chunk_duration is dropped
planWholeChunksOnly(duration, max_chunk_duration) ==
    [k \in 1..(duration \div max_chunk_duration) |->
        [index |-> k - 1,
         start_offset |-> (k - 1) * max_chunk_duration,
         duration |-> max_chunk_duration]]

\* plan(asset, max_chunk_duration): ceil(duration / max_chunk_duration)
\* chunks, chunk i at i * max_chunk_duration, all of max_chunk_duration but
\* the last, which ends with the audio
plan(duration, max_chunk_duration) ==
    [k \in 1..Ceil(duration, max_chunk_duration) |->
        [index |-> k - 1,
         start_offset |-> (k - 1) * max_chunk_duration,
         duration |-> Min2(max_chunk_duration, duration - (k - 1) * max_chunk_duration)]]

PlanInputs ==
    { [duration |-> d, max_chunk_duration |-> m] : d \in 0..MaxDuration, m \in 1..MaxChunkLength }

\* no process is running: every variable of the handlers is as at start
NoProcessState ==
    /\ cuda = FALSE /\ hf_token = FALSE /\ asr_model = FALSE
    /\ inflight = {} /\ net_log = <<>>
    /\ diar_http = NoneV /\ trans_http = NoneV /\ o_diar = NoneV /\ trans_payload = NoneV
    /\ fs = {} /\ temp_file = NoneV /\ wav_file = NoneV
    /\ audio_chunks = <<>> /\ chunk_dirs = {} /\ temp_dir = NoneV
    /\ diarizer = NoneV /\ diarization_result = NoneV
    /\ idx = 0 /\ all_text = <<>> /\ all_segments = <<>>
    /\ outcome = NoneV /\ rm_log = <<>> /\ rm_failed = {} /\ gpu_log = <<>>

PlanInit ==
    /\ svc = "plan" /\ pc = "idle"
    /\ job \in PlanInputs
    /\ result = NoneV
    /\ NoProcessState

\* audio_chunks = split_audio_into_chunks(wav_file, chunk_duration=chunk_duration)
PlanCall ==
    /\ svc = "plan" /\ pc = "idle"
    /\ result' = plan(job.duration, job.max_chunk_duration)
    /\ pc' = "done"
    /\ UNCHANGED <<svc, job, envVars, orchVars, localVars>>

PlanNext == PlanCall

PlanSpec == PlanInit /\ [][PlanNext]_vars

\* the chunks of plan p whose interval [start_offset, start_offset + duration)
\* holds the second [t, t + 1)
ChunksHolding(p, t) ==
    {k \in 1..Len(p) : p[k].start_offset <= t /\ t < p[k].start_offset + p[k].duration}

\* C13: for duration >= 0 and max_chunk_duration > 0 the plan has
\* ceil(duration / max_chunk_duration) chunks, chunk i starts at
\* i * max_chunk_duration, every chunk but the last lasts max_chunk_duration
\* and the last at most that, and the chunks cover [0, duration) with no gap
\* and no overlap; the plan of duration 0 is empty.
C13_PlanCoversDuration ==
    (svc = "plan" /\ pc = "done") =>
        LET d == job.duration
            m == job.max_chunk_duration
            n == Len(result)
        IN  /\ n * m >= d /\ (n > 0 => (n - 1) * m < d)
            /\ d = 0 => result = <<>>
            /\ \A k \in 1..n :
                /\ result[k].index = k - 1
                /\ result[k].start_offset = (k - 1) * m
                /\ k < n => result[k].duration = m
                /\ result[k].duration > 0 /\ result[k].duration <= m
                /\ result[k].start_offset + result[k].duration <= d
                /\ k < n => result[k].start_offset + result[k].duration = result[k + 1].start_offset
            /\ \A t \in 0..(d - 1) : Cardinality(ChunksHolding(result, t)) = 1
            /\ n > 0 => result[n].start_offset + result[n].duration = d

C13_Witness ==
    /\ svc = "plan" /\ pc = "done"
    /\ job = [duration |-> 15, max_chunk_duration |-> 6]
    /\ Len(result) = 3
    /\ result[3] = [index |-> 2, start_offset |-> 12, duration |-> 3]

(***************************************************************************)
(* The two merge functions on their own                                    *)
(***************************************************************************)
MaxTime == 4
MaxDiarSegments == 2

\* the label of the k-th diarization segment
SpeakerAt(k) == IF k % 2 = 1 THEN "A" ELSE "B"

\* diarization lists: up to MaxDiarSegments turns [start, end) within
\* 0..MaxTime, in any order
DiarTurns == {<<a, b>> \in (0..MaxTime) \X (0..MaxTime) : a < b}
DiarLists ==
    UNION { { [k \in 1..n |-> [start |-> f[k][1], end |-> f[k][2], speaker |-> SpeakerAt(k)]]
                : f \in [1..n -> DiarTurns] }
            : n \in 0..MaxDiarSegments }

\* transcript lists: none, one segment [s, e] with s <= e, or that segment
\* followed by one from e to MaxTime
TranscriptSegment(i, s, e) == [id |-> i, start |-> s, end |-> e, text |-> "w"]
TranscriptLists ==
    {<<>>}
    \cup { <<TranscriptSegment(0, s, e)>> : s \in 0..MaxTime, e \in 0..MaxTime }
    \cup { <<TranscriptSegment(0, s, e), TranscriptSegment(1, e, MaxTime)>>
            : s \in 0..MaxTime, e \in 0..MaxTime }

\* how often each segment's speaker is set: once per pass of the loop, in
\* either branch, and the loop is not entered for an empty diarization
SpeakerWrites(dsegs, segs) ==
    [k \in 1..Len(segs) |-> IF dsegs = <<>> THEN 0 ELSE 1]

MergeInit ==
    /\ svc = "merge" /\ pc = "idle"
    /\ job \in { [diarization |-> d, segments |-> t] : d \in DiarLists, t \in TranscriptLists }
    /\ result = NoneV
    /\ NoProcessState

\* diarizer.merge_with_transcription(diarization_result, all_segments)
MergeByDiarizer ==
    /\ svc = "merge" /\ pc = "idle"
    /\ result' = [by |-> "Diarizer",
                  segments |-> merge_with_transcription(job.diarization, job.segments),
                  writes |-> SpeakerWrites(job.diarization, job.segments)]
    /\ pc' = "done"
    /\ UNCHANGED <<svc, job, envVars, orchVars, localVars>>

\* merge_diarization_with_transcription(diarization_segments, all_segments)
MergeByHandler ==
    /\ svc = "merge" /\ pc = "idle"
    /\ result' = [by |-> "handler",
                  segments |-> merge_diarization_with_transcription(job.diarization, job.segments),
                  writes |-> SpeakerWrites(job.diarization, job.segments)]
    /\ pc' = "done"
    /\ UNCHANGED <<svc, job, envVars, orchVars, localVars>>

MergeNext == MergeByDiarizer \/ MergeByHandler

MergeSpec == MergeInit /\ [][MergeNext]_vars

Merged == svc = "merge" /\ pc = "done"

\* max(0, min(s.end, d.end) - max(s.start, d.start))
OverlapDuration(seg, d) ==
    LET len == (IF seg.end <= d.end THEN seg.end ELSE d.end)
               - (IF seg.start >= d.start THEN seg.start ELSE d.start)
    IN  IF len > 0 THEN len ELSE 0

\* the first position of the diarization list whose overlap with seg is the largest
FirstLargestOverlap(seg, dsegs) ==
    CHOOSE k \in 1..Len(dsegs) :
        /\ \A m \in 1..Len(dsegs) : OverlapDuration(seg, dsegs[m]) <= OverlapDuration(seg, dsegs[k])
        /\ \A m \in 1..(k - 1) : OverlapDuration(seg, dsegs[m]) < OverlapDuration(seg, dsegs[k])

OverlapsSome(seg, dsegs) == \E k \in 1..Len(dsegs) : OverlapDuration(seg, dsegs[k]) > 0

\* C14: a transcript segment that overlaps at least one diarization segment
\* gets the speaker of the diarization segment with the largest overlap
\* duration, the earliest in the list when several have it.
C14_LargestOverlapFirstWins ==
    Merged =>
        \A k \in 1..Len(job.segments) :
            OverlapsSome(job.segments[k], job.diarization) =>
                /\ k <= Len(result.segments)
                /\ "speaker" \in DOMAIN result.segments[k]
                /\ result.segments[k].speaker =
                      job.diarization[FirstLargestOverlap(job.segments[k], job.diarization)].speaker

C14_Witness ==
    /\ Merged /\ result.by = "handler"
    /\ job.diarization = <<[start |-> 0, end |-> 2, speaker |-> "A"],
                           [start |-> 2, end |-> 4, speaker |-> "B"]>>
    /\ job.segments = <<TranscriptSegment(0, 1, 3)>>
    /\ result.segments[1].speaker = "A"

\* C15: with a diarization list that is not empty, a transcript segment that
\* overlaps no diarization segment (disjoint, only touching, or of length
\* zero) gets the speaker "unknown".
C15_NoOverlapIsUnknown ==
    Merged =>
        \A k \in 1..Len(job.segments) :
            (job.diarization # <<>> /\ ~OverlapsSome(job.segments[k], job.diarization)) =>
                /\ k <= Len(result.segments)
                /\ "speaker" \in DOMAIN result.segments[k]
                /\ result.segments[k].speaker = "unknown"

C15_Witness ==
    /\ Merged /\ result.by = "Diarizer"
    /\ job.diarization = <<[start |-> 0, end |-> 2, speaker |-> "A"]>>
    /\ job.segments = <<TranscriptSegment(0, 2, 2), TranscriptSegment(1, 2, MaxTime)>>
    /\ result.segments[1].speaker = "unknown"
    /\ result.segments[2].speaker = "unknown"

\* C16: with an empty diarization list merge returns the transcript segments
\* as they are, with no speaker field on any of them.
C16_EmptyDiarizationPassesThrough ==
    (Merged /\ job.diarization = <<>>) =>
        /\ result.segments = job.segments
        /\ \A k \in 1..Len(result.segments) : "speaker" \notin DOMAIN result.segments[k]
        /\ \A k \in 1..Len(result.writes) : result.writes[k] = 0

C16_Witness ==
    /\ Merged /\ result.by = "handler"
    /\ job.diarization = <<>>
    /\ Len(job.segments) = 2
    /\ result.segments = job.segments

AnsweredWithOutput(http) ==
    /\ http # NoneV /\ http.kind = "ok"
    /\ "error" \notin DOMAIN http.body
    /\ "output" \in DOMAIN http.body
    /\ http.body.output # NoneV
    /\ "error" \notin DOMAIN http.body.output

DiarizeRequested == Get(job, "diarize", TRUE)

\* the diarization call was made and answered with segments
SegmentsObtained ==
    /\ DiarizeRequested
    /\ AnsweredWithOutput(diar_http)
    /\ "segments" \in DOMAIN diar_http.body.output

\* C18: the payload sent to the transcription service holds
\* diarization_segments exactly when diarize was on and the diarization call
\* succeeded with a segments field, and the list is then the diarization
\* service's list, element for element.
C18_SegmentsForwardedIffObtained ==
    (svc = "orch" /\ trans_payload # NoneV) =>
        /\ "diarization_segments" \in DOMAIN trans_payload <=> SegmentsObtained
        /\ SegmentsObtained =>
              trans_payload.diarization_segments = diar_http.body.output.segments

C18_Witness ==
    /\ svc = "orch" /\ pc = "await_trans"
    /\ SegmentsObtained
    /\ Len(trans_payload.diarization_segments) = 2
    /\ trans_payload.diarization_segments[1].speaker = "1"
    /\ trans_payload.diarization_segments[2].speaker = "2"

\* C19: the timestamps flag sent to the transcription service is true
\* whenever diarize was requested, also after a failed diarization call, and
\* is the caller's timestamps value (False when not given) when diarize was
\* false.
C19_TimestampsForcedByDiarize ==
    (svc = "orch" /\ trans_payload # NoneV) =>
        trans_payload.timestamps =
            (IF DiarizeRequested THEN TRUE ELSE Get(job, "timestamps", FALSE))

C19_Witness ==
    /\ svc = "orch" /\ pc = "await_trans"
    /\ "diarize" \in DOMAIN job /\ job.diarize
    /\ "timestamps" \in DOMAIN job /\ ~job.timestamps
    /\ diar_http = [kind |-> "timeout"]
    /\ trans_payload.timestamps

\* C20: when the transcription service answers with an output that reports
\* no error, the job result is that output: the same fields with the same
\* values.
C20_ResultIsTranscriptionOutput ==
    (svc = "orch" /\ pc = "done" /\ AnsweredWithOutput(trans_http)) =>
        /\ result = trans_http.body.output
        /\ DOMAIN result = DOMAIN trans_http.body.output

C20_Witness ==
    /\ svc = "orch" /\ pc = "done"
    /\ SegmentsObtained
    /\ AnsweredWithOutput(trans_http)
    /\ result = [text |-> "hello", segments |-> TransSegsA]

(***************************************************************************)
(* A diarization call that timed out                                       *)
(***************************************************************************)
DiarizationTimedOut ==
    /\ svc = "orch" /\ DiarizeRequested
    /\ diar_http # NoneV /\ diar_http.kind = "timeout"

\* what the orchestrator does after the timeout: the transcription call is
\* issued, its input holds no diarization_segments, and the job's result is
\* the transcription output whenever the transcription call gives one
TimedOutDiarizationIsSkipped ==
    DiarizationTimedOut =>
        /\ pc \in {"await_trans", "done"}
        /\ "trans_issue" \in {net_log[k] : k \in 1..Len(net_log)}
        /\ "diarization_segments" \notin DOMAIN trans_payload
        /\ (pc = "done" /\ AnsweredWithOutput(trans_http)) =>
              /\ result = trans_http.body.output
              /\ "error" \notin DOMAIN result

\* the transcription handler answered a job without diarization segments
\* with a result that lists segments
ListedWithoutDiarization ==
    /\ svc = "trans" /\ pc = "done"
    /\ ~HasDiarization(job)
    /\ "segments" \in DOMAIN result

\* C21 as stated: after a diarization call that timed out the transcription
\* is invoked without diarization segments, the job succeeds, and no segment
\* of the final result has a speaker field.
C21_NoSpeakerField ==
    /\ TimedOutDiarizationIsSkipped
    /\ ListedWithoutDiarization =>
          \A k \in 1..Len(result.segments) : "speaker" \notin DOMAIN result.segments[k]

\* C21 (amended): after a diarization call that timed out the transcription
\* is invoked without diarization segments, the job succeeds, and every
\* segment of the final result has a speaker field whose value is null.
C21_SpeakerFieldIsNull ==
    /\ TimedOutDiarizationIsSkipped
    /\ ListedWithoutDiarization =>
          \A k \in 1..Len(result.segments) :
              /\ "speaker" \in DOMAIN result.segments[k]
              /\ result.segments[k].speaker = NoneStr

C21_Witness ==
    /\ ListedWithoutDiarization
    /\ job = OrchPayloadAfterFailedDiarization
    /\ Len(result.segments) >= 2
    /\ result.segments[1].speaker = NoneStr

(***************************************************************************)
(* One job run twice: once with a diarization that succeeds, once with a   *)
(* diarization that fails, on the same input and the same ASR outputs.     *)
(* job is [request, asr: the ASR output of every chunk, found: the speaker *)
(* turns the successful diarization finds]; result is [succeeded, failed], *)
(* the two final results.                                                  *)
(***************************************************************************)

\* the requests of the endpoint that ask for diarization
PairApiRequests == {j \in ApiJobs : j.diarize}

\* the jobs of the orchestrator that ask for diarization
PairOrchRequests ==
    { [audio |-> "https://host/a.mp3"] @@ f @@ t
        : f \in {<<>>, [response_format |-> "text"], [response_format |-> "verbose_json"],
                 [response_format |-> "bogus"]},
          t \in {<<>>, [timestamps |-> TRUE], [timestamps |-> FALSE]} }

\* the ASR outputs of the chunks of one audio file
AsrRuns == UNION {[1..n -> AsrOutputs] : n \in 1..MaxChunks}

\* all_text and all_segments after the chunk loop (api 170-178, trans 262-270)
GatheredTexts(outs) == [k \in 1..Len(outs) |-> outs[k].text]

RECURSIVE GatheredSegments(_, _)
GatheredSegments(outs, n) ==
    IF n = 0 THEN <<>>
    ELSE GatheredSegments(outs, n - 1) \o ShiftSegments(outs[n].segments, n - 1)

\* the ways the endpoint's diarization stage fails: no token (no diarizer is
\* made), a pipeline that did not load, a run that raises or gives an output
\* of no known type; each leaves [dz: the diarizer, dres: its result]
ApiDiarizationFailures ==
    {[dz |-> NoneV, dres |-> NoneV],
     [dz |-> cleanup(NewDiarizer(FALSE)),
      dres |-> diarize(NewDiarizer(FALSE), [kind |-> "raise"])],
     [dz |-> cleanup(NewDiarizer(TRUE)),
      dres |-> diarize(NewDiarizer(TRUE), [kind |-> "raise"])],
     [dz |-> cleanup(NewDiarizer(TRUE)),
      dres |-> diarize(NewDiarizer(TRUE), [kind |-> "unknown"])]}

ApiDiarizationSuccess(found) ==
    [dz |-> cleanup(NewDiarizer(TRUE)),
     dres |-> diarize(NewDiarizer(TRUE), [kind |-> "found", found |-> found])]

\* the endpoint's response for request j, ASR outputs outs and diarization d
ApiAnswer(j, outs, d) ==
    ApiResponse(ApiRender(j, GatheredTexts(outs),
                          ApiMerged(d.dz, d.dres, GatheredSegments(outs, Len(outs)))))

\* the transcription handler's return value for input p and ASR outputs outs
TransAnswer(p, outs) ==
    IF TransRejection(p) # NoneV THEN TransRejection(p)
    ELSE TransRender(p, GatheredTexts(outs),
                     TransMerged(p, GatheredSegments(outs, Len(outs))))

\* the ways the orchestrator's diarization call fails: the request fails or
\* is answered with an error, or the diarization worker's own diarize() call
\* failed and it answers with no segments
OrchDiarizationFailures ==
    {http \in HttpOutcomes(DiarBodies) : HttpFailed(http)}
    \cup {[kind |-> "ok", body |-> [id |-> "d1", output |-> DiarResponse(EmptyDiarization)]]}

OrchDiarizationSuccess(found) ==
    [kind |-> "ok",
     body |-> [id |-> "d1",
               output |-> DiarResponse(diarize(NewDiarizer(TRUE),
                                               [kind |-> "found", found |-> found]))]]

\* the orchestrator's result for job j when the diarization call ends as
\* http and the transcription worker gets the ASR outputs outs
OrchAnswer(j, outs, http) ==
    LET diar == OrchDiarResultVar(call_runpod_endpoint(http)).diar
        out  == TransAnswer(TransPayload(j, diar), outs)
    IN  OrchResult(call_runpod_endpoint([kind |-> "ok",
                                         body |-> [id |-> "t1", output |-> out]]))

PairInit ==
    /\ svc = "pair" /\ pc = "idle"
    /\ job \in [request : PairApiRequests \cup PairOrchRequests,
                 asr : AsrRuns, found : DiarFindings]
    /\ result = NoneV
    /\ NoProcessState

\* the request goes through the single-process endpoint twice
PairThroughEndpoint ==
    /\ svc = "pair" /\ pc = "idle"
    /\ job.request \in PairApiRequests
    /\ \E d \in ApiDiarizationFailures :
        result' = [succeeded |-> ApiAnswer(job.request, job.asr,
                                           ApiDiarizationSuccess(job.found)),
                   failed |-> ApiAnswer(job.request, job.asr, d)]
    /\ pc' = "done"
    /\ UNCHANGED <<svc, job, envVars, orchVars, localVars>>

\* the job goes through the orchestrator and its two workers twice
PairThroughOrchestrator ==
    /\ svc = "pair" /\ pc = "idle"
    /\ job.request \in PairOrchRequests
    /\ \E http \in OrchDiarizationFailures :
        result' = [succeeded |-> OrchAnswer(job.request, job.asr,
                                            OrchDiarizationSuccess(job.found)),
                   failed |-> OrchAnswer(job.request, job.asr, http)]
    /\ pc' = "done"
    /\ UNCHANGED <<svc, job, envVars, orchVars, localVars>>

PairNext == PairThroughEndpoint \/ PairThroughOrchestrator

PairSpec == PairInit /\ [][PairNext]_vars

\* a segment, and a result, without its speaker labels
WithoutSpeaker(seg) == [f \in DOMAIN seg \ {"speaker"} |-> seg[f]]

SegmentsWithoutSpeakers(r) ==
    IF "segments" \in DOMAIN r
    THEN [r EXCEPT !.segments = [k \in 1..Len(r.segments) |-> WithoutSpeaker(r.segments[k])]]
    ELSE r

WithoutSpeakers(r) ==
    IF "body" \in DOMAIN r
    THEN [r EXCEPT !.body = SegmentsWithoutSpeakers(r.body)]
    ELSE SegmentsWithoutSpeakers(r)

\* the segments of a result, <<>> when it lists none
SegmentsOf(r) ==
    IF "body" \in DOMAIN r THEN Get(r.body, "segments", <<>>) ELSE Get(r, "segments", <<>>)

\* C22: the result of a job whose diarization succeeded and the result of
\* the same job, with the same ASR outputs, whose diarization failed are
\* equal once the speaker labels are taken off their segments: the same
\* success or error, the same text and other fields, the segments field in
\* both or in neither, the same number of segments with the same ids, start
\* and end times and texts.
C22_OnlySpeakerLabelsDiffer ==
    (svc = "pair" /\ pc = "done") =>
        /\ WithoutSpeakers(result.succeeded) = WithoutSpeakers(result.failed)
        /\ DOMAIN result.succeeded = DOMAIN result.failed
        /\ Len(SegmentsOf(result.succeeded)) = Len(SegmentsOf(result.failed))
        /\ \A k \in 1..Len(SegmentsOf(result.succeeded)) :
              /\ SegmentsOf(result.succeeded)[k].id = SegmentsOf(result.failed)[k].id
              /\ SegmentsOf(result.succeeded)[k].start = SegmentsOf(result.failed)[k].start
              /\ SegmentsOf(result.succeeded)[k].end = SegmentsOf(result.failed)[k].end

C22_Witness ==
    /\ svc = "pair" /\ pc = "done"
    /\ "audio" \in DOMAIN job.request
    /\ Len(SegmentsOf(result.succeeded)) >= 2
    /\ SegmentsOf(result.succeeded)[1].speaker = "1"
    /\ SegmentsOf(result.failed)[1].speaker = NoneStr
    /\ result.succeeded # result.failed

(***************************************************************************)
(* Requests that are not valid                                             *)
(***************************************************************************)

\* the input of a worker job lacks audio, is base64 data without
\* audio_format, or names a response format that does not exist
InvalidJobInput(j) ==
    \/ Get(j, "audio", "") = ""
    \/ ~IsUrl(j.audio) /\ Get(j, "audio_format", NoneStr) = NoneStr
    \/ Get(j, "response_format", "json") \notin valid_formats

\* the request in hand is not valid; a request to the endpoint always has
\* its file, so only its response format can be wrong
InvalidRequest ==
    /\ job # NoneV
    /\ \/ svc = "api" /\ job.response_format \notin valid_formats
       \/ svc \in {"trans", "orch"} /\ InvalidJobInput(job)

\* C23: a request that is not valid is answered with an error, and between
\* its arrival and its answer no diarization runs, no ASR call is made and
\* no call to another service is issued.
C23_InvalidRequestNeverAttempted ==
    InvalidRequest =>
        /\ gpu_log = <<>>
        /\ net_log = <<>>
        /\ pc = "done" =>
              \/ svc = "api" /\ result.status \in {400, 500}
              \/ svc \in {"trans", "orch"} /\ "error" \in DOMAIN result

(***************************************************************************)
(* Requests to a service whose model is not loaded                         *)
(***************************************************************************)

\* the model the service needs is not loaded: the ASR model of the endpoint
\* and of the transcription handler, the pipeline of the diarization
\* handler's Diarizer
ModelNotLoaded ==
    \/ svc \in {"api", "trans"} /\ ~asr_model
    \/ svc = "diar" /\ (diarizer = NoneV \/ ~diarizer.pipeline)

NotReadyErrors ==
    {[status |-> 503, detail |-> "Model not loaded yet. Please try again in a few moments."],
     [error |-> "Diarization model not initialized"]}

\* C24: a request to a service whose model is not loaded creates no
\* artifact, runs no stage, and is answered with the service's not-ready
\* error.
C24_NotReadyBeforeAnything ==
    (svc \in {"api", "trans", "diar"} /\ job # NoneV /\ ModelNotLoaded) =>
        /\ fs = {}
        /\ gpu_log = <<>>
        /\ pc = "done"
        /\ result \in NotReadyErrors

(***************************************************************************)
(* The arguments of the ASR calls                                          *)
(***************************************************************************)

\* the temperature of the request in hand, in tenths; 0.0 when not given
RequestTemperature == Get(job, "temperature", 0)

\* C25: every call of transcribe_audio_chunk is given a temperature, and it
\* is the temperature of the request.
C25_TemperaturePassedToAsr ==
    (svc \in ChunkServices) =>
        \A k \in AsrCalls :
            /\ "temperature" \in DOMAIN gpu_log[k].kwargs
            /\ gpu_log[k].kwargs.temperature = RequestTemperature

(***************************************************************************)
(* The segments field of a result                                          *)
(***************************************************************************)

\* the request in hand asked for timestamps or for the verbose_json format
SegmentsRequested ==
    \/ Get(job, "timestamps", FALSE)
    \/ Get(job, "response_format", "json") = "verbose_json"

\* the answer to the request in hand lists segments
ResultListsSegments ==
    /\ pc = "done"
    /\ \/ /\ svc = "api" /\ result.status = 200
          /\ "segments" \in DOMAIN result.body
       \/ /\ svc = "trans"
          /\ "segments" \in DOMAIN result

\* C26: a result lists segments only if the request asked for timestamps or
\* for verbose_json; a json request with timestamps false gets no segments,
\* with or without diarization segments in its input.
C26_SegmentsOnlyIfRequested ==
    ResultListsSegments => SegmentsRequested

(***************************************************************************)
(* The text and the segments of a result                                   *)
(***************************************************************************)

\* the request in hand was answered with a transcription
Transcribed ==
    /\ svc \in ChunkServices /\ pc = "done"
    /\ IF svc = "api" THEN result.status = 200
       ELSE "text" \in DOMAIN result

\* the text of the answer
ResultText ==
    IF svc = "trans" THEN result.text
    ELSE IF "plain" \in DOMAIN result.body THEN result.body.plain
    ELSE result.body.text

\* what transcribe_audio_chunk returned for chunk i
ChunkReturn(i) == gpu_log[CHOOSE k \in AsrCalls : gpu_log[k].i = i]

\* the texts of the chunks 0 .. n-1 with one space between neighbours
RECURSIVE TextsOfChunks(_)
TextsOfChunks(n) ==
    IF n = 0 THEN ""
    ELSE IF n = 1 THEN ChunkReturn(0).text
    ELSE TextsOfChunks(n - 1) \o " " \o ChunkReturn(n - 1).text

\* the number of segments returned for the chunks 0 .. n-1
RECURSIVE SegmentsOfChunks(_)
SegmentsOfChunks(n) ==
    IF n = 0 THEN 0 ELSE SegmentsOfChunks(n - 1) + Len(ChunkReturn(n - 1).segments)

\* C27: the text of a result is the texts returned for the chunks 0, 1, ...
\* joined with one space, and the segments of a result that lists them are
\* the segments returned for chunk 0 in their order, then those of chunk 1,
\* and so on, none missing and none added.
C27_TextAndSegmentsInChunkOrder ==
    Transcribed =>
        /\ \A i \in 0..(Len(audio_chunks) - 1) : \E k \in AsrCalls : gpu_log[k].i = i
        /\ ResultText = TextsOfChunks(Len(audio_chunks))
        /\ Len(all_segments) = SegmentsOfChunks(Len(audio_chunks))
        /\ \A i \in 0..(Len(audio_chunks) - 1) :
              \A m \in 1..Len(ChunkReturn(i).segments) :
                  /\ all_segments[SegmentsOfChunks(i) + m].id = ChunkReturn(i).segments[m].id
                  /\ all_segments[SegmentsOfChunks(i) + m].text = ChunkReturn(i).segments[m].text
        /\ ("segments" \in DOMAIN (IF svc = "api" THEN result.body ELSE result)) =>
              /\ Len(SegmentsOf(result)) = Len(all_segments)
              /\ \A k \in 1..Len(all_segments) :
                    /\ SegmentsOf(result)[k].id = all_segments[k].id
                    /\ SegmentsOf(result)[k].text = all_segments[k].text
                    /\ SegmentsOf(result)[k].start = all_segments[k].start

C27_Witness ==
    /\ Transcribed
    /\ Len(audio_chunks) = 2
    /\ ResultText = "b c a"
    /\ Len(SegmentsOf(result)) = 3
    /\ SegmentsOf(result)[1].text = "b"
    /\ SegmentsOf(result)[2].text = "c"
    /\ SegmentsOf(result)[3].text = "a"

(***************************************************************************)
(* Several requests in one process of the endpoint.  transcribe_audio is a *)
(* coroutine of the server's event loop: it runs until it awaits or        *)
(* returns, and its only await is `await file.read()` (api.py line 114).   *)
(* pc, job, result, audio_chunks and idx are functions of the request;     *)
(* inflight holds the coroutine the loop is running; gpu_log holds the     *)
(* accelerator stages with the request they belong to.                     *)
(***************************************************************************)
MaxRequests == 2

Requests == 1..MaxRequests

LoopJobs == {[diarize |-> TRUE], [diarize |-> FALSE]}

\* A faulty variant: the loop is free after every step, as it would be with
\* an await in every stage
ReleasesLoopAlways(p) == TRUE

\* the coroutine gives up the loop at position p: suspended in
\* `await file.read()`, or returned
ReleasesLoop(p) == p \in {"reading", "done"}

loopFixed ==
    <<svc, envVars, net_log, diar_http, trans_http, o_diar, trans_payload,
      fs, temp_file, wav_file, chunk_dirs, temp_dir, cleanVars, diarVars,
      all_text, all_segments, outcome>>

LoopInit ==
    /\ svc = "loop"
    /\ pc = [r \in Requests |-> "new"]
    /\ job \in [Requests -> LoopJobs]
    /\ result = [r \in Requests |-> NoneV]
    /\ audio_chunks = [r \in Requests |-> 0]
    /\ idx = [r \in Requests |-> 0]
    /\ inflight = {}
    /\ gpu_log = <<>>
    /\ cuda = TRUE /\ hf_token = TRUE /\ asr_model = TRUE
    /\ net_log = <<>>
    /\ diar_http = NoneV /\ trans_http = NoneV /\ o_diar = NoneV /\ trans_payload = NoneV
    /\ fs = {} /\ temp_file = NoneV /\ wav_file = NoneV
    /\ chunk_dirs = {} /\ temp_dir = NoneV
    /\ diarizer = NoneV /\ diarization_result = NoneV
    /\ all_text = <<>> /\ all_segments = <<>>
    /\ outcome = NoneV /\ rm_log = <<>> /\ rm_failed = {}

\* request r moves to position p, and the loop is given up or kept
LoopMove(r, p) ==
    /\ pc' = [pc EXCEPT ![r] = p]
    /\ inflight' = IF ReleasesLoop(p) THEN {} ELSE {r}

\* the loop can run a step of r: it is free, or r is what it runs
LoopRuns(r) == inflight \subseteq {r}

StageEvent(r, e) == [req |-> r, ev |-> e]

\* lines 93-114: the request arrives, the upload file is opened and the
\* coroutine waits for the upload's content
LoopAccept(r) ==
    /\ svc = "loop" /\ pc[r] = "new" /\ LoopRuns(r)
    /\ LoopMove(r, "reading")
    /\ UNCHANGED <<job, result, audio_chunks, idx, gpu_log, loopFixed>>

\* the content of the upload has been read; the coroutine can go on when
\* the loop takes it up again
LoopReadComplete(r) ==
    /\ svc = "loop" /\ pc[r] = "reading"
    /\ pc' = [pc EXCEPT ![r] = "ready"]
    /\ UNCHANGED <<job, result, audio_chunks, idx, inflight, gpu_log, loopFixed>>

\* lines 115-137: the upload is written, converted and split; any of it can
\* raise
LoopPrepare(r) ==
    /\ svc = "loop" /\ pc[r] = "ready" /\ LoopRuns(r)
    /\ \/ /\ LoopMove(r, "finally")
          /\ UNCHANGED audio_chunks
       \/ \E n \in 1..MaxChunks :
            /\ audio_chunks' = [audio_chunks EXCEPT ![r] = n]
            /\ LoopMove(r, IF job[r].diarize THEN "diarize" ELSE "chunks")
    /\ UNCHANGED <<job, result, idx, gpu_log, loopFixed>>

\* lines 139-145: the Diarizer is made and run
LoopDiarize(r) ==
    /\ svc = "loop" /\ pc[r] = "diarize" /\ LoopRuns(r)
    /\ gpu_log' = Append(gpu_log, StageEvent(r, "diarize"))
    /\ LoopMove(r, "release")
    /\ UNCHANGED <<job, result, audio_chunks, idx, loopFixed>>

\* lines 147-149: diarizer.cleanup()
LoopRelease(r) ==
    /\ svc = "loop" /\ pc[r] = "release" /\ LoopRuns(r)
    /\ gpu_log' = Append(gpu_log, StageEvent(r, "cleanup"))
    /\ LoopMove(r, "chunks")
    /\ UNCHANGED <<job, result, audio_chunks, idx, loopFixed>>

\* lines 155-178: one chunk goes through the ASR model, which can raise
LoopChunk(r) ==
    /\ svc = "loop" /\ pc[r] = "chunks" /\ idx[r] < audio_chunks[r] /\ LoopRuns(r)
    /\ gpu_log' = Append(gpu_log, StageEvent(r, "asr"))
    /\ \/ /\ LoopMove(r, "finally")
          /\ UNCHANGED idx
       \/ /\ idx' = [idx EXCEPT ![r] = @ + 1]
          /\ LoopMove(r, "chunks")
    /\ UNCHANGED <<job, result, audio_chunks, loopFixed>>

\* lines 180-213: the response is made
LoopFinish(r) ==
    /\ svc = "loop" /\ pc[r] = "chunks" /\ idx[r] = audio_chunks[r] /\ LoopRuns(r)
    /\ result' = [result EXCEPT ![r] = [status |-> 200]]
    /\ LoopMove(r, "finally")
    /\ UNCHANGED <<job, audio_chunks, idx, gpu_log, loopFixed>>

\* lines 215-251: the finally block, then the coroutine returns or raises
LoopFinally(r) ==
    /\ svc = "loop" /\ pc[r] = "finally" /\ LoopRuns(r)
    /\ gpu_log' = Append(gpu_log, StageEvent(r, "cleaned"))
    /\ result' = [result EXCEPT ![r] = IF @ = NoneV THEN [status |-> 500] ELSE @]
    /\ LoopMove(r, "done")
    /\ UNCHANGED <<job, audio_chunks, idx, loopFixed>>

LoopNext ==
    \E r \in Requests :
        \/ LoopAccept(r)
        \/ LoopReadComplete(r)
        \/ LoopPrepare(r)
        \/ LoopDiarize(r)
        \/ LoopRelease(r)
        \/ LoopChunk(r)
        \/ LoopFinish(r)
        \/ LoopFinally(r)

LoopSpec == LoopInit /\ [][LoopNext]_vars

\* the positions between the resumption after the upload and the return
InStages == {"diarize", "release", "chunks", "finally"}

\* C28: in one process of the endpoint the accelerator stages of two
\* requests are never interleaved: from a request's first diarization or
\* ASR step to the end of its cleanup no stage of another request runs, and
\* at most one request is between its resumption and its return.
C28_StagesNeverInterleave ==
    svc = "loop" =>
        /\ \A a \in 1..Len(gpu_log) : \A c \in a..Len(gpu_log) :
              gpu_log[a].req = gpu_log[c].req =>
                  \A b \in a..c : gpu_log[b].req = gpu_log[a].req
        /\ Cardinality({r \in Requests : pc[r] \in InStages}) <= 1
        /\ \A r \in Requests :
              (pc[r] \in InStages /\ gpu_log # <<>>
               /\ \E k \in 1..Len(gpu_log) : gpu_log[k].req = r) =>
                  gpu_log[Len(gpu_log)].req = r

C28_Witness ==
    /\ svc = "loop"
    /\ pc[1] = "chunks" /\ idx[1] = 1 /\ audio_chunks[1] = 2
    /\ pc[2] = "ready"
    /\ Len(gpu_log) = 3
    /\ gpu_log[3] = StageEvent(1, "asr")

(***************************************************************************)
(* The cache clear before each ASR call                                    *)
(***************************************************************************)

\* the event just before position k of the log is a clearing of the cache
ClearedJustBefore(k) == k > 1 /\ gpu_log[k - 1].ev = "empty_cache"

\* C29 as stated: every ASR invocation is directly preceded by a clearing
\* of the accelerator's memory cache.
C29_EveryAsrCallAfterClear ==
    svc \in ChunkServices => \A k \in AsrCalls : ClearedJustBefore(k)

\* C29 (amended): where CUDA is available every ASR invocation is directly
\* preceded by a clearing of the cache, after the previous chunk's
\* invocation; where it is not, no ASR invocation is.
C29_AsrCallAfterClearWithCuda ==
    svc \in ChunkServices =>
        \A k \in AsrCalls :
            /\ cuda => ClearedJustBefore(k)
            /\ cuda => \A m \in AsrCalls : m < k => m < k - 1
            /\ ~cuda => ~ClearedJustBefore(k)

C29_Witness ==
    /\ svc = "trans" /\ cuda /\ pc = "done"
    /\ Len(gpu_log) = 4
    /\ AsrCalls = {2, 4}
    /\ gpu_log[1].ev = "empty_cache" /\ gpu_log[3].ev = "empty_cache"

(***************************************************************************)
(* The endpoint's answer to an unknown response format                     *)
(***************************************************************************)

\* the endpoint answered a request that got as far as the choice of the
\* format, and whose response_format is none of the five
UnknownFormatAnswered ==
    /\ svc = "api" /\ pc = "done" /\ asr_model
    /\ job.response_format \notin valid_formats
    /\ outcome = ApiRender(job, all_text, all_segments)

\* C30: the endpoint answers a request whose response_format is none of
\* json, text, srt, vtt, verbose_json with status 400 and the detail
\* "Unsupported response format: <value>".
C30_UnknownFormatIs400 ==
    UnknownFormatAnswered =>
        /\ result.status = 400
        /\ result.detail = "Unsupported response format: " \o job.response_format

(***************************************************************************)
(* The two aligners side by side                                           *)
(***************************************************************************)

\* C31: Diarizer.merge_with_transcription and the transcription handler's
\* merge_diarization_with_transcription give the same segments with the same
\* speakers for the same diarization list and the same transcript segments:
\* what either returns is what the other returns for that input, on ties, on
\* no overlap and on an empty diarization list.
C31_AlignersAgree ==
    Merged =>
        /\ result.by = "Diarizer" =>
              result.segments =
                  merge_diarization_with_transcription(job.diarization, job.segments)
        /\ result.by = "handler" =>
              result.segments = merge_with_transcription(job.diarization, job.segments)
        /\ \A k \in 1..Len(result.segments) :
              Get(result.segments[k], "speaker", NoneStr) =
                  Get(merge_with_transcription(job.diarization, job.segments)[k],
                      "speaker", NoneStr)

C31_Witness ==
    /\ Merged /\ result.by = "handler"
    /\ job.diarization = <<[start |-> 0, end |-> 2, speaker |-> "A"],
                           [start |-> 2, end |-> 4, speaker |-> "B"]>>
    /\ job.segments = <<TranscriptSegment(0, 1, 3), TranscriptSegment(1, 3, MaxTime)>>
    /\ result.segments[1].speaker = "A"
    /\ result.segments[2].speaker = "B"

(***************************************************************************)
(* The remote calls of an orchestrator job                                 *)
(***************************************************************************)

\* how many times the job in hand issued the call named ev
CallsIssued(ev) == Cardinality({k \in 1..Len(net_log) : net_log[k] = ev})

\* C32: an orchestrator job issues at most one diarization call and at most
\* one transcription call; none at all when the audio field is missing, no
\* diarization call when diarize is false, and exactly one transcription
\* call by its end whenever the audio field is there.
C32_CallsPerJob ==
    (svc = "orch" /\ job # NoneV) =>
        /\ CallsIssued("diar_issue") <= 1
        /\ CallsIssued("trans_issue") <= 1
        /\ Get(job, "audio", "") = "" => net_log = <<>>
        /\ ~DiarizeRequested => CallsIssued("diar_issue") = 0
        /\ (pc = "done" /\ Get(job, "audio", "") # "") => CallsIssued("trans_issue") = 1

(***************************************************************************)
(* call_runpod_endpoint on its own: job is the way the request ends,       *)
(* result the value returned                                               *)
(***************************************************************************)

\* the JSON objects an endpoint can answer with: with or without an error
\* field, an output field (null, a result, an error dict) and a status
CallBodies ==
    { [id |-> "j1"] @@ e @@ o @@ st
        : e \in {<<>>, [error |-> "job failed"], [error |-> "worker crashed"],
                 [error |-> NoneStr]},
          o \in {<<>>, [output |-> NoneV], [output |-> [text |-> "hello"]],
                 [output |-> [segments |-> <<>>, num_speakers |-> 0, duration |-> 0]],
                 [output |-> [error |-> "CUDA out of memory"]]},
          st \in {<<>>, [status |-> "COMPLETED"], [status |-> "IN_QUEUE"]} }

\* the ways the request can end: those of HttpOutcomes, an HTTP error
\* status, and a body that is JSON null, on which `"error" in result` raises
CallOutcomes ==
    HttpOutcomes(CallBodies)
    \cup {[kind |-> "transport", msg |-> "500 Server Error: Internal Server Error"],
          [kind |-> "other", msg |-> NoneTypeError]}

CallInit ==
    /\ svc = "call" /\ pc = "idle"
    /\ job \in CallOutcomes
    /\ result = NoneV
    /\ NoProcessState

\* call_runpod_endpoint(url, payload, timeout) returns
CallReturn ==
    /\ svc = "call" /\ pc = "idle"
    /\ result' = [returned |-> call_runpod_endpoint(job)]
    /\ pc' = "done"
    /\ UNCHANGED <<svc, job, envVars, orchVars, localVars>>

CallNext == CallReturn

CallSpec == CallInit /\ [][CallNext]_vars

\* C33: call_runpod_endpoint returns a value for every way the request can
\* end: {error: ...} for a timeout, a transport or HTTP-status error, a body
\* that cannot be read, and a response with a top-level error field, whether
\* or not it also has an output; else the output field when there is one;
\* else the whole response.
C33_EndpointCallAlwaysReturns ==
    (svc = "call" /\ pc = "done") =>
        /\ DOMAIN result = {"returned"}
        /\ job.kind = "timeout" => result.returned = [error |-> "Endpoint request timed out"]
        /\ job.kind = "transport" =>
              result.returned = [error |-> "Failed to call endpoint: " \o job.msg]
        /\ job.kind = "other" => result.returned = [error |-> job.msg]
        /\ job.kind = "ok" =>
              /\ "error" \in DOMAIN job.body =>
                    result.returned = [error |-> job.body.error]
              /\ ("error" \notin DOMAIN job.body /\ "output" \in DOMAIN job.body) =>
                    result.returned = job.body.output
              /\ ("error" \notin DOMAIN job.body /\ "output" \notin DOMAIN job.body) =>
                    result.returned = job.body

C33_Witness ==
    /\ svc = "call" /\ pc = "done"
    /\ job.kind = "ok"
    /\ "error" \in DOMAIN job.body /\ "output" \in DOMAIN job.body
    /\ job.body.output = [text |-> "hello"]
    /\ result.returned = [error |-> "job failed"]

(***************************************************************************)
(* The life of one Diarizer: made, then diarize() and cleanup() called in  *)
(* any order.  idx counts the calls; result is [op: the last call, before: *)
(* the Diarizer before it, log: the accelerator events before it].         *)
(***************************************************************************)
MaxLifeCalls == 3

LifeInit ==
    /\ svc = "life" /\ pc = "new"
    /\ cuda \in BOOLEAN
    /\ job = NoneV /\ result = NoneV
    /\ hf_token = TRUE /\ asr_model = FALSE
    /\ inflight = {} /\ net_log = <<>>
    /\ diar_http = NoneV /\ trans_http = NoneV /\ o_diar = NoneV /\ trans_payload = NoneV
    /\ fs = {} /\ temp_file = NoneV /\ wav_file = NoneV
    /\ audio_chunks = <<>> /\ chunk_dirs = {} /\ temp_dir = NoneV
    /\ diarizer = NoneV /\ diarization_result = NoneV
    /\ idx = 0 /\ all_text = <<>> /\ all_segments = <<>>
    /\ outcome = NoneV /\ rm_log = <<>> /\ rm_failed = {} /\ gpu_log = <<>>

lifeFixed ==
    <<svc, job, envVars, orchVars, fileVars, cleanVars, all_text, all_segments, outcome>>

\* Diarizer(access_token=...): the pipeline loads, or the failure is swallowed
LifeMake ==
    /\ svc = "life" /\ pc = "new"
    /\ \E loaded \in BOOLEAN : diarizer' = NewDiarizer(loaded)
    /\ pc' = "made"
    /\ UNCHANGED <<result, diarization_result, idx, gpu_log, lifeFixed>>

\* diarizer.diarize(audio_path)
LifeDiarize ==
    /\ svc = "life" /\ pc = "made" /\ idx < MaxLifeCalls
    /\ \E run \in DiarizeRuns :
        /\ diarization_result' = diarize(diarizer, run)
        /\ gpu_log' = Append(gpu_log, DiarizeEvent(diarizer, run))
    /\ result' = [op |-> "diarize", before |-> diarizer, log |-> gpu_log]
    /\ idx' = idx + 1
    /\ UNCHANGED <<pc, diarizer, lifeFixed>>

\* diarizer.cleanup()
LifeCleanup ==
    /\ svc = "life" /\ pc = "made" /\ idx < MaxLifeCalls
    /\ diarizer' = cleanup(diarizer)
    /\ gpu_log' = gpu_log \o CleanupEvents(diarizer)
    /\ result' = [op |-> "cleanup", before |-> diarizer, log |-> gpu_log]
    /\ idx' = idx + 1
    /\ UNCHANGED <<pc, diarization_result, lifeFixed>>

LifeNext == LifeMake \/ LifeDiarize \/ LifeCleanup

LifeSpec == LifeInit /\ [][LifeNext]_vars

\* C34: after cleanup() the Diarizer has no pipeline; cleanup() of a
\* Diarizer without a pipeline changes nothing, the accelerator included;
\* diarize() of a Diarizer without a pipeline, never loaded or cleaned up,
\* returns the empty result and leaves the Diarizer as it was.
C34_DiarizerLifecycle ==
    (svc = "life" /\ result # NoneV) =>
        /\ result.op = "cleanup" =>
              /\ ~diarizer.pipeline
              /\ diarizer.device = result.before.device
              /\ ~result.before.pipeline =>
                    (diarizer = result.before /\ gpu_log = result.log)
        /\ (result.op = "diarize" /\ ~result.before.pipeline) =>
              /\ diarization_result = [segments |-> <<>>, num_speakers |-> 0]
              /\ diarizer = result.before
              /\ gpu_log = Append(result.log, Ev("diarize_uninitialised"))

C34_Witness ==
    /\ svc = "life" /\ idx = 3
    /\ result.op = "diarize" /\ ~result.before.pipeline
    /\ gpu_log[1] = Ev("diar_unload")
    /\ Cardinality(DiarizeCalls) = 1
    /\ diarization_result = EmptyDiarization

(***************************************************************************)
(* The removals of the finally blocks                                      *)
(***************************************************************************)

\* the artifacts the handler keeps track of
TrackedArtifacts ==
    ({temp_file, wav_file, temp_dir} \ {NoneV})
    \cup {audio_chunks[k] : k \in 1..Len(audio_chunks)}
    \cup chunk_dirs

\* the place of an artifact in the finally block: the input file, the WAV
\* file, a chunk file, a chunk directory, the temp directory
RemovalRank(a) ==
    IF a = temp_file THEN 1
    ELSE IF a = wav_file THEN 2
    ELSE IF a \in {audio_chunks[k] : k \in 1..Len(audio_chunks)} THEN 3
    ELSE IF a \in chunk_dirs THEN 4
    ELSE 5

\* the finally block of a handler runs
FinallyRuns == svc \in JobServices /\ pc = "finally" /\ pc' = "done"

\* C35: in a finally block every tracked artifact that is there is
\* attempted, once, whatever removals failed before it; the attempts come
\* in the order input file, WAV file, chunk files, chunk directories, temp
\* directory; and an artifact whose own removal did not fail is gone.
C35_RemovalsAreIndependent ==
    [][FinallyRuns =>
        /\ \A a \in TrackedArtifacts \cap fs : \E k \in 1..Len(rm_log') : rm_log'[k] = a
        /\ \A k \in 1..Len(rm_log') :
              /\ rm_log'[k] \in TrackedArtifacts
              /\ rm_log'[k] \in fs' => rm_log'[k] \in rm_failed'
              /\ \A m \in 1..(k - 1) :
                    /\ rm_log'[m] # rm_log'[k]
                    /\ RemovalRank(rm_log'[m]) <= RemovalRank(rm_log'[k])
    ]_vars

C35_Witness ==
    /\ svc = "trans" /\ pc = "done"
    /\ Len(rm_log) = 5
    /\ rm_failed = {rm_log[1], rm_log[3]}
    /\ rm_log[1] = temp_file /\ rm_log[2] = wav_file
    /\ rm_log[4] \in chunk_dirs /\ rm_log[5] = temp_dir
    /\ rm_log[5] \notin fs

(***************************************************************************)
(* The answers of the diarization handler                                  *)
(***************************************************************************)

\* what download_audio, decode_base64_audio and convert_audio_to_wav raise
AudioFailures ==
    {"download failed", "cannot write downloaded audio", "Incorrect padding",
     "cannot write decoded audio", "conversion failed"}

\* the request in hand was refused for what it is or for the state of the
\* worker: no Diarizer, no audio, base64 data without audio_format
DiarRefused ==
    \/ diarizer = NoneV
    \/ Get(job, "audio", "") = ""
    \/ ~IsUrl(job.audio) /\ Get(job, "audio_format", NoneStr) = NoneStr

\* the parts of the claim that do not depend on the list of error causes:
\* once diarize() was called the answer is a well-formed response, the empty
\* one when the model failed, and a response with segments has the largest
\* segment end as its duration
DiarAnswerWellFormed ==
    (svc = "diar" /\ pc = "done" /\ DiarizeCalls # {}) =>
        /\ DOMAIN result = {"segments", "num_speakers", "duration"}
        /\ DiarizationFailed =>
              result = [segments |-> <<>>, num_speakers |-> 0, duration |-> 0]
        /\ result.segments # <<>> =>
              /\ \A k \in 1..Len(result.segments) : result.segments[k].end <= result.duration
              /\ \E k \in 1..Len(result.segments) : result.segments[k].end = result.duration

\* C36 as stated: a failure of the diarization model gives the empty
\* response, not an error; an error is returned only for a worker without a
\* model, a missing audio field, base64 data without audio_format, or a
\* download, decoding or conversion failure; a response with segments has
\* the largest segment end as its duration.
C36_DiarErrorsOnlyFromInput ==
    /\ DiarAnswerWellFormed
    /\ (svc = "diar" /\ pc = "done" /\ "error" \in DOMAIN result) =>
          \/ DiarRefused
          \/ outcome # NoneV /\ outcome.raised /\ outcome.detail \in AudioFailures

\* C36 (amended): as above, with the failure to create the temp directory
\* among the causes of an error response.
C36_DiarErrorsOnlyBeforeDiarization ==
    /\ DiarAnswerWellFormed
    /\ (svc = "diar" /\ pc = "done" /\ "error" \in DOMAIN result) =>
          /\ DiarizeCalls = {}
          /\ \/ DiarRefused
             \/ /\ outcome # NoneV /\ outcome.raised
                /\ outcome.detail \in AudioFailures \cup {"cannot create temp directory"}

C36_Witness ==
    /\ svc = "diar" /\ pc = "done"
    /\ EventsAt({"diarize_failed"}) # {}
    /\ result = [segments |-> <<>>, num_speakers |-> 0, duration |-> 0]

====
